---- MODULE Spec2Model ----
(***************************************************************************)
(* State-machine model of the V4L2 detector library (v4l2_detector/src).   *)
(* One caller issues the library's operations one at a time.  Every        *)
(* operation is a sequence of steps, one per system call it makes; the     *)
(* replies of the driver are chosen nondeterministically at each step.     *)
(***************************************************************************)
EXTENDS Integers, Sequences, FiniteSets, TLC

VARIABLES
    pc,          \* position of the caller: "idle" or a label inside an operation
    op,          \* the operation in progress, or the last one that returned
    arg,         \* the arguments of that operation
    fds,         \* number of device handles currently open
    subscribed,  \* the open handle has a source-change subscription
    pending,     \* a source-change event is queued on the handle
    log,         \* system calls issued by the operation, with their results
    loc,         \* local variables of the operation
    ret,         \* integer return value of the last operation
    res,         \* structure returned by the last operation
    out,         \* the caller's output parameters (list, count, value)
    heap,        \* heap blocks the operation allocated and has not freed
    dev          \* what the driver currently answers to enumeration requests

vars == <<pc, op, arg, fds, subscribed, pending, log, loc, ret, res, out, heap, dev>>

----------------------------------------------------------------------------
(* Values *)

\* enum v4l2_device_type
V4L2_DEVICE_TYPE_WEBCAM == 0
V4L2_DEVICE_TYPE_HDMI == 1
V4L2_DEVICE_TYPE_UNKNOWN == -1

\* enum v4l2_signal_state
V4L2_SIGNAL_STATE_NO_DEVICE == -1
V4L2_SIGNAL_STATE_NO_LINK == 0
V4L2_SIGNAL_STATE_NO_SIGNAL == 1
V4L2_SIGNAL_STATE_UNSTABLE == 2
V4L2_SIGNAL_STATE_LOCKED == 3
V4L2_SIGNAL_STATE_OUT_OF_RANGE == 4
V4L2_SIGNAL_STATE_NOT_SUPPORTED == 5

\* errno values a failing VIDIOC_G_DV_TIMINGS can leave
TimingsErrnos == {"ENOLINK", "ENOLCK", "ERANGE", "ENOTTY", "EIO"}

\* driver names a VIDIOC_QUERYCAP can report
DriverNames == {"uvcvideo", "tc358743"}

RECURSIVE Pow2(_)
Pow2(n) == IF n = 0 THEN 1 ELSE 2 * Pow2(n - 1)

\* width in bits of the __u32 timing fields, scaled down; a uint64_t has
\* twice as many
U32Bits == 13

U32Modulus == Pow2(U32Bits)

U64Modulus == Pow2(2 * U32Bits)

\* struct v4l2_bt_timings, the fields the library reads
Bt(w, h, clk, il, hp, vp) ==
    [width |-> w, height |-> h, pixelclock |-> clk, interlaced |-> il,
     hfrontporch |-> hp, hsync |-> hp, hbackporch |-> hp,
     vfrontporch |-> vp, vsync |-> vp, vbackporch |-> vp]

\* memset(&timings, 0, sizeof(timings))
ZeroBt == Bt(0, 0, 0, 0, 0, 0)

\* timings a driver can report: absent or ordinary values, and one with
\* fields close to the largest a __u32 holds
BtVals ==
    {Bt(w, h, clk, il, p, p) :
        w \in {0, 1920}, h \in {0, 1, 1080}, clk \in {0, 27000000},
        il \in {0, 1}, p \in {0, 40}}
    \cup {Bt(U32Modulus - 3, U32Modulus - 3, 27000000, 0, 1, 1)}

\* what VIDIOC_G_DV_TIMINGS can answer: success with timings, or -1 and errno
TimingsReplies ==
    {[ret |-> 0, errno |-> "none", bt |-> t] : t \in BtVals}
    \cup {[ret |-> -1, errno |-> e, bt |-> ZeroBt] : e \in TimingsErrnos}

\* what VIDIOC_QUERYCAP can answer
CapReplies ==
    {[ret |-> 0, driver |-> d] : d \in DriverNames}
    \cup {[ret |-> -1, driver |-> ""]}

\* timeout_ms arguments of v4l2_wait_for_source_change
TimeoutVals == {-1, 0, 1500}

\* a __u32 as its top bit and its low 31 bits
U32(top, low) == [top |-> top, low |-> low]

\* ev.u.src_change.changes values a dequeued event can carry (__u32)
ChangesVals == {U32(0, 0), U32(0, 1), U32(0, 3), U32(1, 1)}

\* conversion of a __u32 to the int the function returns (two's complement)
ToInt32(u) == IF u.top = 1 THEN (u.low - 2147483647) - 1 ELSE u.low

NoRes == [none |-> TRUE]

\* a heap block: what it holds, and for which list entry
Block(kind, i) == <<kind, i>>

\* list[index] = v on a calloc'ed array of Len(list) elements.  A store at or
\* past the end lands outside the block; it is kept visible as an element
\* the array was not allocated for.
StoreAt(list, index, v) ==
    IF index < Len(list) THEN [list EXCEPT ![index + 1] = v]
    ELSE list \o [k \in 1..(index + 1 - Len(list)) |->
                     IF k = index + 1 - Len(list) THEN v ELSE "outside"]

\* output parameters the callee has not written
Untouched == [written |-> FALSE]

\* no enumeration tables: the operation in progress asks for none
NoDev == [none |-> TRUE]

\* errno values a failing v4l2_open or ioctl can leave (ENOENT, EACCES,
\* EBUSY, ENODEV, and EINVAL, a driver's answer to an index or ID it does
\* not have); the functions return -errno
Errnos == {2, 13, 16, 19, 22}

Logged(call, r) == <<call, r>>

CountOf(l, call) == Cardinality({i \in 1..Len(l) : l[i][1] = call})

Has(l, call, r) == \E i \in 1..Len(l) : l[i] = <<call, r>>

----------------------------------------------------------------------------
(* Entering and leaving an operation *)

EnterWith(o, a, label, locals, d) ==
    /\ pc = "idle"
    /\ op = "none"
    /\ pc' = label
    /\ op' = o
    /\ arg' = a
    /\ loc' = locals
    /\ log' = <<>>
    /\ ret' = 0
    /\ res' = NoRes
    /\ out' = Untouched
    /\ heap' = {}
    /\ dev' = d
    /\ UNCHANGED <<fds, subscribed, pending>>

\* an operation that makes no enumeration request
Enter(o, a, label, locals) == EnterWith(o, a, label, locals, NoDev)

\* v4l2_open(device_path, O_RDWR | O_NONBLOCK): the library's own wrapper
\* around it (v4l2_open_device) is not used by the operations
OpenDevice(ok) ==
    /\ fds' = (IF ok THEN fds + 1 ELSE fds)
    /\ UNCHANGED <<subscribed, pending>>

\* v4l2_close(fd): the kernel drops the handle's subscriptions and events
CloseDevice ==
    /\ fds' = fds - 1
    /\ subscribed' = FALSE
    /\ pending' = FALSE

Init ==
    /\ pc = "idle"
    /\ op = "none"
    /\ arg = [none |-> TRUE]
    /\ fds = 0
    /\ subscribed = FALSE
    /\ pending = FALSE
    /\ log = <<>>
    /\ loc = [none |-> TRUE]
    /\ ret = 0
    /\ res = NoRes
    /\ out = Untouched
    /\ heap = {}
    /\ dev = NoDev

\* the caller has taken the result of the call that returned: the call's
\* frame is gone and the next call can be made; open handles stay open
ResultTaken ==
    /\ pc = "idle"
    /\ op # "none"
    /\ op' = "none"
    /\ arg' = [none |-> TRUE]
    /\ log' = <<>>
    /\ loc' = [none |-> TRUE]
    /\ ret' = 0
    /\ res' = NoRes
    /\ out' = Untouched
    /\ heap' = {}
    /\ dev' = NoDev
    /\ UNCHANGED <<pc, fds, subscribed, pending>>

----------------------------------------------------------------------------
(* v4l2_signal.c: v4l2_get_device_status and its two wrappers *)

StatusOps == {"get_device_status", "get_device_type", "device_is_ready"}

\* the check "signal is locked" both entry points make on a successful reply
TimingsValid(bt) == bt.width > 0 /\ bt.height > 0 /\ bt.pixelclock > 0

\* mutant: ERANGE is taken for a sign of DV-timings support as well
SupportsDvTimings_WithRange(r) ==
    r.ret = 0 \/ r.errno \in {"ENOLINK", "ENOLCK", "ERANGE"}

\* ret == 0 || errno == ENOLINK || errno == ENOLCK
SupportsDvTimings(r) == r.ret = 0 \/ r.errno = "ENOLINK" \/ r.errno = "ENOLCK"


\* mutant: ready without the check of the timings
HdmiReady_AnyTimings(r) == IF r.ret = 0 THEN 1 ELSE 0

\* ret == 0 && width > 0 && height > 0 && pixelclock > 0
HdmiReady(r) == IF r.ret = 0 /\ TimingsValid(r.bt) THEN 1 ELSE 0

\* the status the function starts from
InitialStatus == [device_type |-> V4L2_DEVICE_TYPE_UNKNOWN, ready |-> 0]

\* mutant: the webcam branch forgets to set ready
ClassifyDevice_WebcamNotReady(cap, r) ==
    IF r.ret = 0 \/ r.errno = "ENOLINK" \/ r.errno = "ENOLCK"
    THEN [device_type |-> V4L2_DEVICE_TYPE_HDMI,
          ready |-> IF r.ret = 0 /\ TimingsValid(r.bt) THEN 1 ELSE 0]
    ELSE IF cap.driver = "uvcvideo"
         THEN [device_type |-> V4L2_DEVICE_TYPE_WEBCAM, ready |-> 0]
         ELSE [device_type |-> V4L2_DEVICE_TYPE_UNKNOWN, ready |-> 1]

\* the decision made after the capability and the timings query
ClassifyDevice(cap, r) ==
    IF SupportsDvTimings(r)
    THEN [device_type |-> V4L2_DEVICE_TYPE_HDMI, ready |-> HdmiReady(r)]
    ELSE IF cap.driver = "uvcvideo"
         THEN [device_type |-> V4L2_DEVICE_TYPE_WEBCAM, ready |-> 1]
         ELSE [device_type |-> V4L2_DEVICE_TYPE_UNKNOWN, ready |-> 1]

\* what each entry point hands back of the status
StatusResult(o, status) ==
    CASE o = "get_device_type" -> status.device_type
      [] o = "device_is_ready" -> status.ready
      [] OTHER -> 0

ReturnStatus(status) ==
    /\ pc' = "idle"
    /\ res' = status
    /\ ret' = StatusResult(op, status)

CallStatus ==
    \E o \in StatusOps :
        Enter(o, [device_path |-> "/dev/video0"], "st_open",
              [status |-> InitialStatus])

StOpen ==
    /\ pc = "st_open"
    /\ \E ok \in BOOLEAN :
        /\ log' = Append(log, Logged("open", IF ok THEN 0 ELSE -1))
        /\ OpenDevice(ok)
        /\ IF ok
           THEN pc' = "st_querycap" /\ UNCHANGED <<ret, res>>
           ELSE ReturnStatus(loc.status)
    /\ UNCHANGED <<op, arg, loc>>
    /\ UNCHANGED <<out, heap, dev>>


\* mutant: a failed capability query does not end the call
StQueryCap_IgnoreFailure ==
    /\ pc = "st_querycap"
    /\ \E c \in CapReplies :
        /\ log' = Append(log, Logged("QUERYCAP", c.ret))
        /\ loc' = [status |-> loc.status, cap |-> c]
        /\ pc' = "st_timings"
    /\ UNCHANGED <<op, arg, fds, subscribed, pending, ret, res>>
    /\ UNCHANGED <<out, heap, dev>>

StQueryCap ==
    /\ pc = "st_querycap"
    /\ \E c \in CapReplies :
        /\ log' = Append(log, Logged("QUERYCAP", c.ret))
        /\ loc' = [status |-> loc.status, cap |-> c]
        /\ pc' = (IF c.ret < 0 THEN "st_close" ELSE "st_timings")
    /\ UNCHANGED <<op, arg, fds, subscribed, pending, ret, res>>
    /\ UNCHANGED <<out, heap, dev>>

StTimings ==
    /\ pc = "st_timings"
    /\ \E r \in TimingsReplies :
        /\ log' = Append(log, Logged("G_DV_TIMINGS", r.ret))
        /\ loc' = [status |-> ClassifyDevice(loc.cap, r), cap |-> loc.cap,
                   timings |-> r]
    /\ pc' = "st_close"
    /\ UNCHANGED <<op, arg, fds, subscribed, pending, ret, res>>
    /\ UNCHANGED <<out, heap, dev>>

\* mutant: v4l2_device_is_ready opens the device a second time before it
\* answers
StClose_Reopen ==
    /\ pc = "st_close"
    /\ log' = Append(log, Logged("close", 0))
    /\ fds' = fds - 1
    /\ subscribed' = FALSE
    /\ pending' = FALSE
    /\ IF op = "device_is_ready" /\ Len(log) < 5
       THEN pc' = "st_open" /\ UNCHANGED <<ret, res>>
       ELSE /\ pc' = "idle"
            /\ res' = loc.status
            /\ ret' = (IF op = "device_is_ready" THEN loc.status.ready ELSE 0)
    /\ UNCHANGED <<op, arg, loc>>
    /\ UNCHANGED <<out, heap, dev>>

StClose ==
    /\ pc = "st_close"
    /\ log' = Append(log, Logged("close", 0))
    /\ CloseDevice
    /\ ReturnStatus(loc.status)
    /\ UNCHANGED <<op, arg, loc>>
    /\ UNCHANGED <<out, heap, dev>>

----------------------------------------------------------------------------
(* v4l2_signal.c: v4l2_get_dv_timings *)

\* calculate_fps without the halving of an interlaced signal's height
calculate_fps_NoHalving(bt) ==
    LET total_width ==
            (bt.width + bt.hfrontporch + bt.hsync + bt.hbackporch) % U32Modulus
        total_height ==
            (bt.height + bt.vfrontporch + bt.vsync + bt.vbackporch) % U32Modulus
    IN  IF bt.pixelclock = 0 THEN <<0, 1>>
        ELSE IF total_width = 0 \/ total_height = 0 THEN <<0, 1>>
        ELSE <<bt.pixelclock, (total_width * total_height) % U64Modulus>>

\* calculate_fps: the quotient pixelclock / (total_width * total_height) as
\* the pair <<dividend, divisor>>; 0.0 is <<0, 1>>.  Each total is a sum of
\* __u32 fields, computed in 32 bits and then stored in a uint64_t; the
\* product is a uint64_t.  A divisor of 0 would be a division by zero.
calculate_fps(bt) ==
    LET total_width ==
            (bt.width + bt.hfrontporch + bt.hsync + bt.hbackporch) % U32Modulus
        full_height ==
            (bt.height + bt.vfrontporch + bt.vsync + bt.vbackporch) % U32Modulus
        total_height == IF bt.interlaced # 0 THEN full_height \div 2
                        ELSE full_height
    IN  IF bt.pixelclock = 0 THEN <<0, 1>>
        ELSE IF total_width = 0 \/ total_height = 0 THEN <<0, 1>>
        ELSE <<bt.pixelclock, (total_width * total_height) % U64Modulus>>

\* memset(&status, 0, sizeof(status)); status.state = NO_DEVICE
InitialSignal ==
    [state |-> V4L2_SIGNAL_STATE_NO_DEVICE, width |-> 0, height |-> 0,
     fps |-> <<0, 1>>, interlaced |-> 0]


\* a switch without the ERANGE case
SignalStateOfErrno_NoRange(e) ==
    CASE e = "ENOLINK" -> V4L2_SIGNAL_STATE_NO_LINK
      [] e = "ENOLCK" -> V4L2_SIGNAL_STATE_UNSTABLE
      [] e = "ENOTTY" -> V4L2_SIGNAL_STATE_NOT_SUPPORTED
      [] OTHER -> V4L2_SIGNAL_STATE_NO_SIGNAL

\* the state chosen for a failed query, by errno
SignalStateOfErrno(e) ==
    CASE e = "ENOLINK" -> V4L2_SIGNAL_STATE_NO_LINK
      [] e = "ENOLCK" -> V4L2_SIGNAL_STATE_UNSTABLE
      [] e = "ERANGE" -> V4L2_SIGNAL_STATE_OUT_OF_RANGE
      [] e = "ENOTTY" -> V4L2_SIGNAL_STATE_NOT_SUPPORTED
      [] OTHER -> V4L2_SIGNAL_STATE_NO_SIGNAL

\* the status built from the reply of the timings query
ClassifySignal(r) ==
    IF r.ret = 0
    THEN IF TimingsValid(r.bt)
         THEN [state |-> V4L2_SIGNAL_STATE_LOCKED, width |-> r.bt.width,
               height |-> r.bt.height, fps |-> calculate_fps(r.bt),
               interlaced |-> r.bt.interlaced]
         ELSE [InitialSignal EXCEPT !.state = V4L2_SIGNAL_STATE_NO_SIGNAL]
    ELSE [InitialSignal EXCEPT !.state = SignalStateOfErrno(r.errno)]

CallDvTimings ==
    Enter("get_dv_timings", [device_path |-> "/dev/video0"], "dv_open",
          [status |-> InitialSignal])

DvOpen ==
    /\ pc = "dv_open"
    /\ \E ok \in BOOLEAN :
        /\ log' = Append(log, Logged("open", IF ok THEN 0 ELSE -1))
        /\ OpenDevice(ok)
        /\ IF ok
           THEN pc' = "dv_timings" /\ UNCHANGED <<ret, res>>
           ELSE pc' = "idle" /\ res' = loc.status /\ ret' = 0
    /\ UNCHANGED <<op, arg, loc>>
    /\ UNCHANGED <<out, heap, dev>>

DvTimings ==
    /\ pc = "dv_timings"
    /\ \E r \in TimingsReplies :
        /\ log' = Append(log, Logged("G_DV_TIMINGS", r.ret))
        /\ loc' = [status |-> ClassifySignal(r), timings |-> r]
    /\ pc' = "dv_close"
    /\ UNCHANGED <<op, arg, fds, subscribed, pending, ret, res>>
    /\ UNCHANGED <<out, heap, dev>>

DvClose ==
    /\ pc = "dv_close"
    /\ log' = Append(log, Logged("close", 0))
    /\ CloseDevice
    /\ pc' = "idle"
    /\ res' = loc.status
    /\ ret' = 0
    /\ UNCHANGED <<op, arg, loc>>
    /\ UNCHANGED <<out, heap, dev>>

----------------------------------------------------------------------------
(* v4l2_signal.c: v4l2_wait_for_source_change *)

\* return -1 when the device cannot be opened
WaitOpenFailed == -1

\* mutant: a failed subscription is reported like a failed open
WaitSubscribeFailed_AsOpen == WaitOpenFailed

\* return -2 when VIDIOC_SUBSCRIBE_EVENT fails
WaitSubscribeFailed == -2

\* return ev.u.src_change.changes
WaitEventResult(ev) == ToInt32(ev)

\* return ret, the value select() returned
WaitCleanupResult(selRet) == selRet

\* mutant: a timeout_ms of 0 is passed on as a zero timeout
SelectHasTimeout_Zero(timeout_ms) == timeout_ms >= 0

\* select(fd + 1, NULL, NULL, &fds, timeout_ms > 0 ? &tv : NULL) is given a
\* timeout only for a positive timeout_ms
SelectHasTimeout(timeout_ms) == timeout_ms > 0

CallWait ==
    \E t \in TimeoutVals :
        Enter("wait_for_source_change",
              [device_path |-> "/dev/video0", timeout_ms |-> t], "w_open",
              [ret |-> 0, ev |-> U32(0, 0), dequeued |-> FALSE])

WaitOpen ==
    /\ pc = "w_open"
    /\ \E ok \in BOOLEAN :
        /\ log' = Append(log, Logged("open", IF ok THEN 0 ELSE -1))
        /\ OpenDevice(ok)
        /\ IF ok
           THEN pc' = "w_subscribe" /\ UNCHANGED ret
           ELSE pc' = "idle" /\ ret' = WaitOpenFailed
    /\ UNCHANGED <<op, arg, loc, res>>
    /\ UNCHANGED <<out, heap, dev>>

WaitSubscribe ==
    /\ pc = "w_subscribe"
    /\ \E ok \in BOOLEAN :
        IF ok
        THEN /\ log' = Append(log, Logged("SUBSCRIBE_EVENT", 0))
             /\ subscribed' = TRUE
             /\ pc' = "w_select"
             /\ UNCHANGED <<fds, pending, ret>>
        ELSE /\ log' = log \o <<Logged("SUBSCRIBE_EVENT", -1), Logged("close", 0)>>
             /\ CloseDevice
             /\ pc' = "idle"
             /\ ret' = WaitSubscribeFailed
    /\ UNCHANGED <<op, arg, loc, res>>
    /\ UNCHANGED <<out, heap, dev>>

\* the source changes while the caller is subscribed: the driver queues an event
RaiseEvent ==
    /\ pc \in {"w_select", "w_dqevent", "w_cleanup", "w_unsubscribe"}
    /\ subscribed
    /\ ~pending
    /\ pending' = TRUE
    /\ UNCHANGED <<pc, op, arg, fds, subscribed, log, loc, ret, res>>
    /\ UNCHANGED <<out, heap, dev>>

\* select() returns 1: the handle has an exceptional condition (an event)
WaitSelectReady ==
    /\ pc = "w_select"
    /\ pending
    /\ log' = Append(log, Logged("select", 1))
    /\ loc' = [loc EXCEPT !.ret = 1]
    /\ pc' = "w_dqevent"
    /\ UNCHANGED <<op, arg, fds, subscribed, pending, ret, res>>
    /\ UNCHANGED <<out, heap, dev>>

\* select() returns 0: the timeout it was given elapsed with nothing queued
WaitSelectTimeout ==
    /\ pc = "w_select"
    /\ ~pending
    /\ SelectHasTimeout(arg.timeout_ms)
    /\ log' = Append(log, Logged("select", 0))
    /\ loc' = [loc EXCEPT !.ret = 0]
    /\ pc' = "w_cleanup"
    /\ UNCHANGED <<op, arg, fds, subscribed, pending, ret, res>>
    /\ UNCHANGED <<out, heap, dev>>

\* select() returns -1 (a signal interrupts it, EINTR)
WaitSelectError ==
    /\ pc = "w_select"
    /\ log' = Append(log, Logged("select", -1))
    /\ loc' = [loc EXCEPT !.ret = -1]
    /\ pc' = "w_cleanup"
    /\ UNCHANGED <<op, arg, fds, subscribed, pending, ret, res>>
    /\ UNCHANGED <<out, heap, dev>>

\* if (ret > 0) { if (v4l2_ioctl(fd, VIDIOC_DQEVENT, &ev) == 0) ...
WaitDqEvent ==
    /\ pc = "w_dqevent"
    /\ \E ok \in BOOLEAN, ch \in ChangesVals :
        IF ok /\ pending
        THEN /\ log' = Append(log, Logged("DQEVENT", 0))
             /\ loc' = [loc EXCEPT !.ev = ch, !.dequeued = TRUE]
             /\ pending' = FALSE
             /\ pc' = "w_unsubscribe"
        ELSE /\ log' = Append(log, Logged("DQEVENT", -1))
             /\ pc' = "w_cleanup"
             /\ UNCHANGED <<loc, pending>>
    /\ UNCHANGED <<op, arg, fds, subscribed, ret, res>>
    /\ UNCHANGED <<out, heap, dev>>

\* the event was dequeued: unsubscribe, close, return the change flags
WaitReturnEvent ==
    /\ pc = "w_unsubscribe"
    /\ \E r \in {0, -1} :
        log' = log \o <<Logged("UNSUBSCRIBE_EVENT", r), Logged("close", 0)>>
    /\ CloseDevice
    /\ pc' = "idle"
    /\ ret' = WaitEventResult(loc.ev)
    /\ UNCHANGED <<op, arg, loc, res>>
    /\ UNCHANGED <<out, heap, dev>>

\* mutant: the cleanup path closes the handle without unsubscribing
WaitCleanup_NoUnsubscribe ==
    /\ pc = "w_cleanup"
    /\ log' = Append(log, Logged("close", 0))
    /\ fds' = fds - 1
    /\ subscribed' = FALSE
    /\ pending' = FALSE
    /\ pc' = "idle"
    /\ ret' = loc.ret
    /\ UNCHANGED <<op, arg, loc, res>>
    /\ UNCHANGED <<out, heap, dev>>

\* every other way out of the wait: unsubscribe, close, return ret
WaitCleanup ==
    /\ pc = "w_cleanup"
    /\ \E r \in {0, -1} :
        log' = log \o <<Logged("UNSUBSCRIBE_EVENT", r), Logged("close", 0)>>
    /\ CloseDevice
    /\ pc' = "idle"
    /\ ret' = WaitCleanupResult(loc.ret)
    /\ UNCHANGED <<op, arg, loc, res>>
    /\ UNCHANGED <<out, heap, dev>>

----------------------------------------------------------------------------
(* v4l2_controls.c: v4l2_set_ctrl_value and v4l2_get_ctrl_value *)

\* control ids and values the caller passes, values VIDIOC_G_CTRL reports
ControlIds == {"brightness", "power_line_frequency"}
ControlValues == {0, 7}

\* an open whose failure is reported as 0
OpenOrFail_ZeroOnFailure(next) ==
    \/ /\ log' = Append(log, Logged("open", 0))
       /\ OpenDevice(TRUE)
       /\ pc' = next
       /\ UNCHANGED ret
    \/ /\ log' = Append(log, Logged("open", -1))
       /\ OpenDevice(FALSE)
       /\ pc' = "idle"
       /\ ret' = 0

\* the steps shared by the operations that open the device and stop with
\* -errno when that fails
OpenOrFail(next) ==
    \/ /\ log' = Append(log, Logged("open", 0))
       /\ OpenDevice(TRUE)
       /\ pc' = next
       /\ UNCHANGED ret
    \/ \E e \in Errnos :
        /\ log' = Append(log, Logged("open", -1))
        /\ OpenDevice(FALSE)
        /\ pc' = "idle"
        /\ ret' = -e

CallSetCtrl ==
    \E id \in ControlIds, v \in ControlValues :
        Enter("set_ctrl_value",
              [device_path |-> "/dev/video0", control_id |-> id, value |-> v],
              "sc_open", [none |-> TRUE])

SetCtrlOpen ==
    /\ pc = "sc_open"
    /\ OpenOrFail("sc_ioctl")
    /\ UNCHANGED <<op, arg, loc, res, out, heap, dev>>

\* VIDIOC_S_CTRL, then close and return 0 or -errno
SetCtrlIoctl ==
    /\ pc = "sc_ioctl"
    /\ \/ /\ log' = log \o <<Logged("S_CTRL", 0), Logged("close", 0)>>
          /\ ret' = 0
       \/ \E e \in Errnos :
          /\ log' = log \o <<Logged("S_CTRL", -1), Logged("close", 0)>>
          /\ ret' = -e
    /\ CloseDevice
    /\ pc' = "idle"
    /\ UNCHANGED <<op, arg, loc, res, out, heap, dev>>

CallGetCtrl ==
    \E id \in ControlIds :
        Enter("get_ctrl_value",
              [device_path |-> "/dev/video0", control_id |-> id],
              "gc_open", [none |-> TRUE])

GetCtrlOpen ==
    /\ pc = "gc_open"
    /\ OpenOrFail("gc_ioctl")
    /\ UNCHANGED <<op, arg, loc, res, out, heap, dev>>

\* VIDIOC_G_CTRL, then *value = control.value on success, close and return
GetCtrlIoctl ==
    /\ pc = "gc_ioctl"
    /\ \/ \E v \in ControlValues :
          /\ log' = log \o <<Logged("G_CTRL", 0), Logged("close", 0)>>
          /\ out' = [written |-> TRUE, value |-> v]
          /\ ret' = 0
       \/ \E e \in Errnos :
          /\ log' = log \o <<Logged("G_CTRL", -1), Logged("close", 0)>>
          /\ out' = out
          /\ ret' = -e
    /\ CloseDevice
    /\ pc' = "idle"
    /\ UNCHANGED <<op, arg, loc, res, heap, dev>>

----------------------------------------------------------------------------
(* v4l2_formats.c: v4l2_get_formats *)

\* largest number of entries a driver's enumeration holds
MaxEntries == 2

ENOMEM == 12

\* sequences over S of length at most n
SeqUpTo(S, n) == UNION {[1..k -> S] : k \in 0..n}

\* what VIDIOC_ENUM_FMT can describe: fourcc, description, emulated flag
FormatVals ==
    {[pixelformat |-> "YUYV", description |-> "YUYV 4:2:2", emulated |-> FALSE],
     [pixelformat |-> "MJPG", description |-> "Motion-JPEG", emulated |-> FALSE],
     [pixelformat |-> "RGB3", description |-> "RGB3", emulated |-> TRUE]}

\* the driver's format table: index i of VIDIOC_ENUM_FMT is entry i + 1
FormatTables == SeqUpTo(FormatVals, MaxEntries)

\* an entry of a calloc'ed v4l2_format_info array
ZeroFormat == [pixel_format |-> "", format_name |-> "NULL", emulated |-> FALSE]

\* an entry that takes the pixel format but leaves the name unset
FormatEntry_NoName(f) ==
    [pixel_format |-> f.pixelformat, format_name |-> "NULL",
     emulated |-> f.emulated]

\* the entry the fill pass writes for a driver reply
FormatEntry(f) ==
    [pixel_format |-> f.pixelformat,
     format_name |-> IF f.emulated THEN f.description \o " (Emulated)"
                     ELSE f.description,
     emulated |-> f.emulated]

\* the driver's answer to an index-based enumeration over table t
EnumOk(t, index) == index < Len(t)

\* the driver answers differently from now on
DriverChange(tables) ==
    /\ \E t \in tables \ {dev.table} :
        dev' = [table |-> t, changed |-> TRUE]
    /\ UNCHANGED <<pc, op, arg, fds, subscribed, pending, log, loc, ret, res,
                   out, heap>>

\* a return that forgets the handle on the error paths
CloseAndReturn_Leak(r, o) ==
    /\ IF r < 0 THEN UNCHANGED <<fds, subscribed, pending>> ELSE CloseDevice
    /\ pc' = "idle"
    /\ ret' = r
    /\ out' = o

\* close the handle and return r; the output parameters are set to o
CloseAndReturn(r, o) ==
    /\ CloseDevice
    /\ pc' = "idle"
    /\ ret' = r
    /\ out' = o

CallGetFormats ==
    \E t \in FormatTables :
        EnterWith("get_formats", [device_path |-> "/dev/video0"], "fmt_open",
                  [fmt_count |-> 0, fmt_list |-> <<>>, fmt_index |-> 0,
                   index |-> 0],
                  [table |-> t, changed |-> FALSE])

FmtDriverChange ==
    /\ pc \in {"fmt_count", "fmt_alloc", "fmt_fill"}
    /\ DriverChange(FormatTables)

FmtOpen ==
    /\ pc = "fmt_open"
    /\ OpenOrFail("fmt_count")
    /\ UNCHANGED <<op, arg, loc, res, out, heap, dev>>

\* first pass: one VIDIOC_ENUM_FMT of the counting loop; when it fails the
\* loop ends, and an empty result is returned at once
FmtCount ==
    /\ pc = "fmt_count"
    /\ IF EnumOk(dev.table, loc.fmt_index)
       THEN /\ log' = Append(log, Logged("ENUM_FMT", 0))
            /\ loc' = [loc EXCEPT !.fmt_count = @ + 1, !.fmt_index = @ + 1]
            /\ UNCHANGED <<pc, fds, subscribed, pending, ret, out>>
       ELSE IF loc.fmt_count = 0
            THEN /\ log' = log \o <<Logged("ENUM_FMT", -1), Logged("close", 0)>>
                 /\ CloseAndReturn(0, [written |-> TRUE, list |-> "NULL", count |-> 0])
                 /\ UNCHANGED loc
            ELSE /\ log' = Append(log, Logged("ENUM_FMT", -1))
                 /\ pc' = "fmt_alloc"
                 /\ UNCHANGED <<loc, fds, subscribed, pending, ret, out>>
    /\ UNCHANGED <<op, arg, res, heap, dev>>

\* fmt_list = calloc(fmt_count, ...)
FmtAlloc ==
    /\ pc = "fmt_alloc"
    /\ \/ /\ loc' = [loc EXCEPT !.fmt_list = [i \in 1..loc.fmt_count |-> ZeroFormat],
                                !.fmt_index = 0, !.index = 0]
          /\ heap' = heap \cup {Block("fmt_list", 0)}
          /\ pc' = "fmt_fill"
          /\ UNCHANGED <<log, fds, subscribed, pending, ret, out>>
       \/ /\ log' = Append(log, Logged("close", 0))
          /\ CloseAndReturn(-ENOMEM, out)
          /\ UNCHANGED <<loc, heap>>
    /\ UNCHANGED <<op, arg, res, dev>>

\* second pass: one VIDIOC_ENUM_FMT of the filling loop, which ends when the
\* ioctl fails or index reaches fmt_count
FmtFill ==
    /\ pc = "fmt_fill"
    /\ IF EnumOk(dev.table, loc.fmt_index) /\ loc.index < loc.fmt_count
       THEN /\ log' = Append(log, Logged("ENUM_FMT", 0))
            /\ loc' = [loc EXCEPT
                          !.fmt_list =
                              StoreAt(@, loc.index,
                                      FormatEntry(dev.table[loc.fmt_index + 1])),
                          !.fmt_index = @ + 1, !.index = @ + 1]
            /\ heap' = heap \cup {Block("format_name", loc.index)}
            /\ UNCHANGED <<pc, fds, subscribed, pending, ret, out>>
       ELSE /\ log' = log \o <<Logged("ENUM_FMT",
                                      IF EnumOk(dev.table, loc.fmt_index)
                                      THEN 0 ELSE -1),
                               Logged("close", 0)>>
            /\ CloseAndReturn(0, [written |-> TRUE, list |-> loc.fmt_list,
                                  count |-> loc.fmt_count])
            /\ UNCHANGED <<loc, heap>>
    /\ UNCHANGED <<op, arg, res, dev>>

----------------------------------------------------------------------------
(* v4l2_formats.c: v4l2_get_resolutions *)

Size(w, h) == [width |-> w, height |-> h]

\* common_resolutions[]: 4:3, 16:9, 21:9, tv
common_resolutions ==
    <<Size(160, 120), Size(320, 240), Size(480, 320), Size(640, 480),
      Size(800, 600), Size(1024, 768), Size(1280, 960), Size(1440, 1050),
      Size(1440, 1080), Size(1600, 1200),
      Size(640, 360), Size(960, 540), Size(1280, 720), Size(1600, 900),
      Size(1920, 1080), Size(1920, 1200), Size(2560, 1440), Size(3840, 2160),
      Size(2560, 1080), Size(3440, 1440), Size(5120, 2160),
      Size(432, 520), Size(480, 320), Size(480, 530), Size(486, 440),
      Size(576, 310), Size(576, 520), Size(576, 570), Size(720, 576),
      Size(1024, 576)>>

num_common_resolutions == Len(common_resolutions)

\* frame sizes a driver lists one by one
SizeVals == {Size(640, 480), Size(1920, 1080)}

Rect(minw, maxw, minh, maxh) ==
    [min_width |-> minw, max_width |-> maxw, min_height |-> minh,
     max_height |-> maxh]

\* rectangles a driver reports for a continuous or stepwise format
RectVals ==
    {Rect(160, 640, 120, 480), Rect(0, 8192, 0, 8192), Rect(32, 100, 32, 100),
     Rect(1280, 1920, 720, 1080)}

ZeroRect == Rect(0, 0, 0, 0)

\* what the driver answers to VIDIOC_ENUM_FRAMESIZES for one pixel format:
\* a list of discrete sizes, or one rectangle at index 0
FrameSizeTables ==
    {[type |-> "DISCRETE", sizes |-> q, rect |-> ZeroRect] :
        q \in SeqUpTo(SizeVals, MaxEntries)}
    \cup {[type |-> ty, sizes |-> <<>>, rect |-> r] :
            ty \in {"CONTINUOUS", "STEPWISE"}, r \in RectVals}

\* whether the driver accepts the index
FrameSizeOk(t, index) ==
    IF t.type = "DISCRETE" THEN index < Len(t.sizes) ELSE index = 0

\* the frmsize fields the driver fills in when it accepts the index; discrete
\* and stepwise share storage, so a rectangle read as a discrete size shows
\* its first two words
FrameSizeReply(t, index) ==
    [type |-> t.type,
     discrete |-> IF t.type = "DISCRETE" THEN t.sizes[index + 1]
                  ELSE Size(t.rect.min_width, t.rect.max_width),
     stepwise |-> t.rect]

\* a range test that looks at the width only
InRect_WidthOnly(sz, r) ==
    /\ sz.width >= r.min_width
    /\ sz.width <= r.max_width

\* the range test applied to an entry of the common table
InRect(sz, r) ==
    /\ sz.width >= r.min_width
    /\ sz.width <= r.max_width
    /\ sz.height >= r.min_height
    /\ sz.height <= r.max_height

\* the counting loop over common_resolutions, from table position i
RECURSIVE CountCommonResolutions(_, _, _)
CountCommonResolutions(i, r, res_count) ==
    IF i > num_common_resolutions THEN res_count
    ELSE CountCommonResolutions(
             i + 1, r,
             IF InRect(common_resolutions[i], r) THEN res_count + 1
             ELSE res_count)

\* mutant: the filling loop without the test of index against res_count
RECURSIVE FillCommonResolutions_NoBound(_, _, _, _, _)
FillCommonResolutions_NoBound(i, r, index, res_count, res_list) ==
    IF i > num_common_resolutions THEN res_list
    ELSE IF InRect(common_resolutions[i], r)
         THEN FillCommonResolutions_NoBound(
                  i + 1, r, index + 1, res_count,
                  StoreAt(res_list, index, common_resolutions[i]))
         ELSE FillCommonResolutions_NoBound(i + 1, r, index, res_count,
                                            res_list)

\* the filling loop over common_resolutions, from table position i, which
\* stops when index reaches res_count
RECURSIVE FillCommonResolutions(_, _, _, _, _)
FillCommonResolutions(i, r, index, res_count, res_list) ==
    IF i > num_common_resolutions \/ ~(index < res_count) THEN res_list
    ELSE IF InRect(common_resolutions[i], r)
         THEN FillCommonResolutions(
                  i + 1, r, index + 1, res_count,
                  StoreAt(res_list, index, common_resolutions[i]))
         ELSE FillCommonResolutions(i + 1, r, index, res_count, res_list)

IsRange(type) == type = "CONTINUOUS" \/ type = "STEPWISE"

\* the locals after the driver filled in frmsize
WithFrmsize(l, reply) ==
    [l EXCEPT !.frm_type = reply.type, !.frm_discrete = reply.discrete,
              !.frm_rect = reply.stepwise]

CallGetResolutions ==
    \E t \in FrameSizeTables :
        EnterWith("get_resolutions",
                  [device_path |-> "/dev/video0", pixel_format |-> "YUYV"],
                  "res_open",
                  [res_count |-> 0, res_list |-> <<>>, frm_index |-> 0,
                   frm_type |-> "", frm_discrete |-> Size(0, 0),
                   frm_rect |-> ZeroRect, index |-> 0],
                  [table |-> t, changed |-> FALSE])

ResDriverChange ==
    /\ pc \in {"res_probe", "res_count", "res_range", "res_alloc", "res_fill",
               "res_fill_range"}
    /\ DriverChange(FrameSizeTables)

ResOpen ==
    /\ pc = "res_open"
    /\ OpenOrFail("res_probe")
    /\ UNCHANGED <<op, arg, loc, res, out, heap, dev>>

\* the first VIDIOC_ENUM_FRAMESIZES, index 0, tells the type
ResProbe ==
    /\ pc = "res_probe"
    /\ IF FrameSizeOk(dev.table, 0)
       THEN /\ log' = Append(log, Logged("ENUM_FRAMESIZES", 0))
            /\ loc' = WithFrmsize(loc, FrameSizeReply(dev.table, 0))
            /\ pc' = (IF dev.table.type = "DISCRETE" THEN "res_count"
                      ELSE "res_range")
            /\ UNCHANGED <<fds, subscribed, pending, ret, out>>
       ELSE /\ log' = log \o <<Logged("ENUM_FRAMESIZES", -1), Logged("close", 0)>>
            /\ \E e \in Errnos : CloseAndReturn(-e, out)
            /\ UNCHANGED loc
    /\ UNCHANGED <<op, arg, res, heap, dev>>

\* an empty result: *resolutions = NULL, *count = 0, close, return 0
ResReturnEmpty ==
    CloseAndReturn(0, [written |-> TRUE, list |-> "NULL", count |-> 0])

\* one VIDIOC_ENUM_FRAMESIZES of the loop that counts discrete sizes
ResCount ==
    /\ pc = "res_count"
    /\ IF FrameSizeOk(dev.table, loc.frm_index)
       THEN /\ log' = Append(log, Logged("ENUM_FRAMESIZES", 0))
            /\ loc' = [WithFrmsize(loc, FrameSizeReply(dev.table, loc.frm_index))
                          EXCEPT !.res_count = @ + 1, !.frm_index = @ + 1]
            /\ UNCHANGED <<pc, fds, subscribed, pending, ret, out>>
       ELSE IF loc.res_count = 0
            THEN /\ log' = log \o <<Logged("ENUM_FRAMESIZES", -1),
                                    Logged("close", 0)>>
                 /\ ResReturnEmpty
                 /\ UNCHANGED loc
            ELSE /\ log' = Append(log, Logged("ENUM_FRAMESIZES", -1))
                 /\ pc' = "res_alloc"
                 /\ UNCHANGED <<loc, fds, subscribed, pending, ret, out>>
    /\ UNCHANGED <<op, arg, res, heap, dev>>

\* continuous or stepwise: index 0 is queried again for the rectangle and the
\* common resolutions inside it are counted
ResRange ==
    /\ pc = "res_range"
    /\ IF FrameSizeOk(dev.table, 0)
       THEN LET l == [WithFrmsize(loc, FrameSizeReply(dev.table, 0))
                         EXCEPT !.frm_index = 0]
                n == IF IsRange(l.frm_type)
                     THEN CountCommonResolutions(1, l.frm_rect, l.res_count)
                     ELSE l.res_count
            IN  /\ loc' = [l EXCEPT !.res_count = n]
                /\ IF n = 0
                   THEN /\ log' = log \o <<Logged("ENUM_FRAMESIZES", 0),
                                           Logged("close", 0)>>
                        /\ ResReturnEmpty
                   ELSE /\ log' = Append(log, Logged("ENUM_FRAMESIZES", 0))
                        /\ pc' = "res_alloc"
                        /\ UNCHANGED <<fds, subscribed, pending, ret, out>>
       ELSE /\ log' = log \o <<Logged("ENUM_FRAMESIZES", -1), Logged("close", 0)>>
            /\ \E e \in Errnos : CloseAndReturn(-e, out)
            /\ UNCHANGED loc
    /\ UNCHANGED <<op, arg, res, heap, dev>>

\* res_list = calloc(res_count, ...); the type last reported picks the fill
ResAlloc ==
    /\ pc = "res_alloc"
    /\ \/ /\ loc' = [loc EXCEPT
                        !.res_list = [i \in 1..loc.res_count |-> Size(0, 0)],
                        !.frm_index = 0, !.index = 0]
          /\ heap' = heap \cup {Block("res_list", 0)}
          /\ pc' = (IF loc.frm_type = "DISCRETE" THEN "res_fill"
                    ELSE "res_fill_range")
          /\ UNCHANGED <<log, fds, subscribed, pending, ret, out>>
       \/ /\ log' = Append(log, Logged("close", 0))
          /\ CloseAndReturn(-ENOMEM, out)
          /\ UNCHANGED <<loc, heap>>
    /\ UNCHANGED <<op, arg, res, dev>>

\* one VIDIOC_ENUM_FRAMESIZES of the loop that stores discrete sizes
ResFill ==
    /\ pc = "res_fill"
    /\ IF FrameSizeOk(dev.table, loc.frm_index)
       THEN LET l == WithFrmsize(loc, FrameSizeReply(dev.table, loc.frm_index))
            IN  IF loc.index < loc.res_count
                THEN /\ log' = Append(log, Logged("ENUM_FRAMESIZES", 0))
                     /\ loc' = [l EXCEPT !.res_list = StoreAt(@, loc.index, l.frm_discrete),
                                         !.frm_index = @ + 1, !.index = @ + 1]
                     /\ UNCHANGED <<pc, fds, subscribed, pending, ret, out>>
                ELSE /\ log' = log \o <<Logged("ENUM_FRAMESIZES", 0),
                                        Logged("close", 0)>>
                     /\ loc' = l
                     /\ CloseAndReturn(0, [written |-> TRUE, list |-> l.res_list,
                                           count |-> l.res_count])
       ELSE /\ log' = log \o <<Logged("ENUM_FRAMESIZES", -1), Logged("close", 0)>>
            /\ CloseAndReturn(0, [written |-> TRUE, list |-> loc.res_list,
                                  count |-> loc.res_count])
            /\ UNCHANGED loc
    /\ UNCHANGED <<op, arg, res, heap, dev>>


\* mutant: the failure branch returns without free(res_list)
ResFillRange_NoFree ==
    /\ pc = "res_fill_range"
    /\ IF FrameSizeOk(dev.table, 0)
       THEN LET l == WithFrmsize(loc, FrameSizeReply(dev.table, 0))
                filled == IF IsRange(l.frm_type)
                          THEN FillCommonResolutions(1, l.frm_rect, 0,
                                                     l.res_count, l.res_list)
                          ELSE l.res_list
            IN  /\ log' = log \o <<Logged("ENUM_FRAMESIZES", 0), Logged("close", 0)>>
                /\ loc' = [l EXCEPT !.res_list = filled]
                /\ CloseAndReturn(0, [written |-> TRUE, list |-> filled,
                                      count |-> l.res_count])
                /\ UNCHANGED heap
       ELSE /\ log' = log \o <<Logged("ENUM_FRAMESIZES", -1), Logged("close", 0)>>
            /\ UNCHANGED <<heap, loc>>
            /\ \E e \in Errnos : CloseAndReturn(-e, out)
    /\ UNCHANGED <<op, arg, res, dev>>

\* continuous or stepwise: index 0 is queried once more and the common
\* resolutions inside the rectangle are stored
ResFillRange ==
    /\ pc = "res_fill_range"
    /\ IF FrameSizeOk(dev.table, 0)
       THEN LET l == WithFrmsize(loc, FrameSizeReply(dev.table, 0))
                filled == IF IsRange(l.frm_type)
                          THEN FillCommonResolutions(1, l.frm_rect, 0,
                                                     l.res_count, l.res_list)
                          ELSE l.res_list
            IN  /\ log' = log \o <<Logged("ENUM_FRAMESIZES", 0), Logged("close", 0)>>
                /\ loc' = [l EXCEPT !.res_list = filled]
                /\ CloseAndReturn(0, [written |-> TRUE, list |-> filled,
                                      count |-> l.res_count])
                /\ UNCHANGED heap
       ELSE /\ log' = log \o <<Logged("ENUM_FRAMESIZES", -1), Logged("close", 0)>>
            /\ heap' = heap \ {Block("res_list", 0)}
            /\ \E e \in Errnos : CloseAndReturn(-e, out)
            /\ UNCHANGED loc
    /\ UNCHANGED <<op, arg, res, dev>>

----------------------------------------------------------------------------
(* v4l2_formats.c: v4l2_get_framerates *)

Ival(n, d) == [numerator |-> n, denominator |-> d]

common_framerates ==
    <<Ival(1, 60), Ival(1, 50), Ival(1, 30), Ival(1, 25), Ival(1, 20),
      Ival(1, 15), Ival(1, 10), Ival(1, 5)>>

num_common_framerates == Len(common_framerates)

\* frame intervals a driver lists one by one
IvalVals == {Ival(1, 30), Ival(1001, 30000)}

IvalRange(lo, hi) == [min |-> lo, max |-> hi]

\* shortest and longest interval a driver reports for a continuous or
\* stepwise size; a zero numerator stands for a bound the driver leaves open
IvalRangeVals ==
    {IvalRange(Ival(1, 60), Ival(1, 5)), IvalRange(Ival(1, 30), Ival(1, 30)),
     IvalRange(Ival(1, 5), Ival(1, 60)), IvalRange(Ival(1, 15), Ival(0, 1))}

ZeroIvalRange == IvalRange(Ival(0, 0), Ival(0, 0))

FrameIvalTables ==
    {[type |-> "DISCRETE", ivals |-> q, range |-> ZeroIvalRange] :
        q \in SeqUpTo(IvalVals, MaxEntries)}
    \cup {[type |-> ty, ivals |-> <<>>, range |-> r] :
            ty \in {"CONTINUOUS", "STEPWISE"}, r \in IvalRangeVals}

FrameIvalOk(t, index) ==
    IF t.type = "DISCRETE" THEN index < Len(t.ivals) ELSE index = 0

\* the frmival fields the driver fills in; discrete shares storage with
\* stepwise.min
FrameIvalReply(t, index) ==
    [type |-> t.type,
     discrete |-> IF t.type = "DISCRETE" THEN t.ivals[index + 1] ELSE t.range.min,
     stepwise |-> t.range]

\* (float)denominator / numerator: a finite quotient, infinity for x/0 or
\* not-a-number for 0/0
FloatDiv(den, num) ==
    IF num # 0 THEN [kind |-> "finite", n |-> den, d |-> num]
    ELSE IF den # 0 THEN [kind |-> "inf", n |-> 1, d |-> 0]
    ELSE [kind |-> "nan", n |-> 0, d |-> 0]

\* a >= b on such quotients, a finite
FloatGe(a, b) ==
    /\ b.kind = "finite"
    /\ a.n * b.d >= b.n * a.d

\* a <= b on such quotients, a finite
FloatLe(a, b) ==
    \/ b.kind = "inf"
    \/ b.kind = "finite" /\ a.n * b.d <= b.n * a.d

\* fps >= min_fps && fps <= max_fps, with the bounds the code derives from the
\* reported range
InIvalRange(iv, r) ==
    LET min_fps == FloatDiv(r.min.denominator, r.min.numerator)
        max_fps == FloatDiv(r.max.denominator, r.max.numerator)
        fps == FloatDiv(iv.denominator, iv.numerator)
    IN  FloatGe(fps, min_fps) /\ FloatLe(fps, max_fps)

RECURSIVE CountCommonFramerates(_, _, _)
CountCommonFramerates(i, r, rate_count) ==
    IF i > num_common_framerates THEN rate_count
    ELSE CountCommonFramerates(
             i + 1, r,
             IF InIvalRange(common_framerates[i], r) THEN rate_count + 1
             ELSE rate_count)

RECURSIVE FillCommonFramerates(_, _, _, _, _)
FillCommonFramerates(i, r, index, rate_count, rate_list) ==
    IF i > num_common_framerates \/ ~(index < rate_count) THEN rate_list
    ELSE IF InIvalRange(common_framerates[i], r)
         THEN FillCommonFramerates(
                  i + 1, r, index + 1, rate_count,
                  StoreAt(rate_list, index, common_framerates[i]))
         ELSE FillCommonFramerates(i + 1, r, index, rate_count, rate_list)

WithFrmival(l, reply) ==
    [l EXCEPT !.frm_type = reply.type, !.frm_discrete = reply.discrete,
              !.frm_range = reply.stepwise]

CallGetFramerates ==
    \E t \in FrameIvalTables :
        EnterWith("get_framerates",
                  [device_path |-> "/dev/video0", pixel_format |-> "YUYV",
                   width |-> 640, height |-> 480],
                  "rate_open",
                  [rate_count |-> 0, rate_list |-> <<>>, frm_index |-> 0,
                   frm_type |-> "", frm_discrete |-> Ival(0, 0),
                   frm_range |-> ZeroIvalRange, index |-> 0],
                  [table |-> t, changed |-> FALSE])

RateDriverChange ==
    /\ pc \in {"rate_probe", "rate_count", "rate_range", "rate_alloc",
               "rate_fill", "rate_fill_range"}
    /\ DriverChange(FrameIvalTables)

RateOpen ==
    /\ pc = "rate_open"
    /\ OpenOrFail("rate_probe")
    /\ UNCHANGED <<op, arg, loc, res, out, heap, dev>>

RateProbe ==
    /\ pc = "rate_probe"
    /\ IF FrameIvalOk(dev.table, 0)
       THEN /\ log' = Append(log, Logged("ENUM_FRAMEINTERVALS", 0))
            /\ loc' = WithFrmival(loc, FrameIvalReply(dev.table, 0))
            /\ pc' = (IF dev.table.type = "DISCRETE" THEN "rate_count"
                      ELSE "rate_range")
            /\ UNCHANGED <<fds, subscribed, pending, ret, out>>
       ELSE /\ log' = log \o <<Logged("ENUM_FRAMEINTERVALS", -1),
                               Logged("close", 0)>>
            /\ \E e \in Errnos : CloseAndReturn(-e, out)
            /\ UNCHANGED loc
    /\ UNCHANGED <<op, arg, res, heap, dev>>

RateReturnEmpty ==
    CloseAndReturn(0, [written |-> TRUE, list |-> "NULL", count |-> 0])

RateCount ==
    /\ pc = "rate_count"
    /\ IF FrameIvalOk(dev.table, loc.frm_index)
       THEN /\ log' = Append(log, Logged("ENUM_FRAMEINTERVALS", 0))
            /\ loc' = [WithFrmival(loc, FrameIvalReply(dev.table, loc.frm_index))
                          EXCEPT !.rate_count = @ + 1, !.frm_index = @ + 1]
            /\ UNCHANGED <<pc, fds, subscribed, pending, ret, out>>
       ELSE IF loc.rate_count = 0
            THEN /\ log' = log \o <<Logged("ENUM_FRAMEINTERVALS", -1),
                                    Logged("close", 0)>>
                 /\ RateReturnEmpty
                 /\ UNCHANGED loc
            ELSE /\ log' = Append(log, Logged("ENUM_FRAMEINTERVALS", -1))
                 /\ pc' = "rate_alloc"
                 /\ UNCHANGED <<loc, fds, subscribed, pending, ret, out>>
    /\ UNCHANGED <<op, arg, res, heap, dev>>

RateRange ==
    /\ pc = "rate_range"
    /\ IF FrameIvalOk(dev.table, 0)
       THEN LET l == [WithFrmival(loc, FrameIvalReply(dev.table, 0))
                         EXCEPT !.frm_index = 0]
                n == IF IsRange(l.frm_type)
                     THEN CountCommonFramerates(1, l.frm_range, l.rate_count)
                     ELSE l.rate_count
            IN  /\ loc' = [l EXCEPT !.rate_count = n]
                /\ IF n = 0
                   THEN /\ log' = log \o <<Logged("ENUM_FRAMEINTERVALS", 0),
                                           Logged("close", 0)>>
                        /\ RateReturnEmpty
                   ELSE /\ log' = Append(log, Logged("ENUM_FRAMEINTERVALS", 0))
                        /\ pc' = "rate_alloc"
                        /\ UNCHANGED <<fds, subscribed, pending, ret, out>>
       ELSE /\ log' = log \o <<Logged("ENUM_FRAMEINTERVALS", -1),
                               Logged("close", 0)>>
            /\ \E e \in Errnos : CloseAndReturn(-e, out)
            /\ UNCHANGED loc
    /\ UNCHANGED <<op, arg, res, heap, dev>>

RateAlloc ==
    /\ pc = "rate_alloc"
    /\ \/ /\ loc' = [loc EXCEPT
                        !.rate_list = [i \in 1..loc.rate_count |-> Ival(0, 0)],
                        !.frm_index = 0, !.index = 0]
          /\ heap' = heap \cup {Block("rate_list", 0)}
          /\ pc' = (IF loc.frm_type = "DISCRETE" THEN "rate_fill"
                    ELSE "rate_fill_range")
          /\ UNCHANGED <<log, fds, subscribed, pending, ret, out>>
       \/ /\ log' = Append(log, Logged("close", 0))
          /\ CloseAndReturn(-ENOMEM, out)
          /\ UNCHANGED <<loc, heap>>
    /\ UNCHANGED <<op, arg, res, dev>>

RateFill ==
    /\ pc = "rate_fill"
    /\ IF FrameIvalOk(dev.table, loc.frm_index)
       THEN LET l == WithFrmival(loc, FrameIvalReply(dev.table, loc.frm_index))
            IN  IF loc.index < loc.rate_count
                THEN /\ log' = Append(log, Logged("ENUM_FRAMEINTERVALS", 0))
                     /\ loc' = [l EXCEPT !.rate_list = StoreAt(@, loc.index, l.frm_discrete),
                                         !.frm_index = @ + 1, !.index = @ + 1]
                     /\ UNCHANGED <<pc, fds, subscribed, pending, ret, out>>
                ELSE /\ log' = log \o <<Logged("ENUM_FRAMEINTERVALS", 0),
                                        Logged("close", 0)>>
                     /\ loc' = l
                     /\ CloseAndReturn(0, [written |-> TRUE, list |-> l.rate_list,
                                           count |-> l.rate_count])
       ELSE /\ log' = log \o <<Logged("ENUM_FRAMEINTERVALS", -1),
                               Logged("close", 0)>>
            /\ CloseAndReturn(0, [written |-> TRUE, list |-> loc.rate_list,
                                  count |-> loc.rate_count])
            /\ UNCHANGED loc
    /\ UNCHANGED <<op, arg, res, heap, dev>>

RateFillRange ==
    /\ pc = "rate_fill_range"
    /\ IF FrameIvalOk(dev.table, 0)
       THEN LET l == WithFrmival(loc, FrameIvalReply(dev.table, 0))
                filled == IF IsRange(l.frm_type)
                          THEN FillCommonFramerates(1, l.frm_range, 0,
                                                    l.rate_count, l.rate_list)
                          ELSE l.rate_list
            IN  /\ log' = log \o <<Logged("ENUM_FRAMEINTERVALS", 0),
                                   Logged("close", 0)>>
                /\ loc' = [l EXCEPT !.rate_list = filled]
                /\ CloseAndReturn(0, [written |-> TRUE, list |-> filled,
                                      count |-> l.rate_count])
                /\ UNCHANGED heap
       ELSE /\ log' = log \o <<Logged("ENUM_FRAMEINTERVALS", -1),
                               Logged("close", 0)>>
            /\ heap' = heap \ {Block("rate_list", 0)}
            /\ \E e \in Errnos : CloseAndReturn(-e, out)
            /\ UNCHANGED loc
    /\ UNCHANGED <<op, arg, res, dev>>

----------------------------------------------------------------------------
(* v4l2_controls.c: v4l2_get_controls *)

V4L2_CID_BASE == 9963776

\* number of IDs in the standard range [V4L2_CID_BASE, V4L2_CID_LASTP1)
StdRange == 2

V4L2_CID_LASTP1 == V4L2_CID_BASE + StdRange

V4L2_CID_PRIVATE_BASE == 134217728

V4L2_CTRL_TYPE_INTEGER == 1

V4L2_CTRL_TYPE_MENU == 3

V4L2_CTRL_TYPE_INTEGER_MENU == 9

\* a test of the disabled bit that never finds it set
Disabled_Never(flags) == FALSE

\* flags & V4L2_CTRL_FLAG_DISABLED, bit 0 of the flags word
Disabled(flags) == flags % 2 = 1

\* a control as VIDIOC_QUERYCTRL describes it
Ctrl(id, name, type, maximum, flags) ==
    [id |-> id, name |-> name, type |-> type, minimum |-> 0,
     maximum |-> maximum, step |-> 1, default_value |-> 0, flags |-> flags]

\* the standard controls a driver may have
StdCtrlSets ==
    {{},
     {Ctrl(V4L2_CID_BASE, "Brightness", V4L2_CTRL_TYPE_INTEGER, 255, 0)},
     {Ctrl(V4L2_CID_BASE, "Brightness", V4L2_CTRL_TYPE_INTEGER, 255, 0),
      Ctrl(V4L2_CID_BASE + 1, "Contrast", V4L2_CTRL_TYPE_INTEGER, 255, 1)}}

\* the private controls a driver may have
PrivCtrlSets ==
    {{},
     {Ctrl(V4L2_CID_PRIVATE_BASE, "Gain", V4L2_CTRL_TYPE_INTEGER, 15, 0)},
     {Ctrl(V4L2_CID_PRIVATE_BASE, "Gain", V4L2_CTRL_TYPE_INTEGER, 15, 1),
      Ctrl(V4L2_CID_PRIVATE_BASE + 1, "Mode", V4L2_CTRL_TYPE_MENU, 2, 16)},
     {Ctrl(V4L2_CID_PRIVATE_BASE, "Gain", V4L2_CTRL_TYPE_INTEGER, 15, 0),
      Ctrl(V4L2_CID_PRIVATE_BASE + 1, "Mode", V4L2_CTRL_TYPE_MENU, 2, 16)}}

\* a driver's controls, and whether it understands V4L2_CTRL_FLAG_NEXT_CTRL
ControlTables ==
    {[next_ctrl |-> n, ctrls |-> a \cup b] :
        n \in BOOLEAN, a \in StdCtrlSets, b \in PrivCtrlSets}

\* struct v4l2_queryctrl after memset; flag is bit 31 of the id word
\* (V4L2_CTRL_FLAG_NEXT_CTRL), id the remaining bits
ZeroQctrl ==
    [flag |-> FALSE, id |-> 0, name |-> "", type |-> 0, minimum |-> 0,
     maximum |-> 0, step |-> 0, default_value |-> 0, flags |-> 0]

\* the controls that answer VIDIOC_QUERYCTRL for q.id: with the next flag the
\* control with the least id above q.id, if the driver knows the flag;
\* without it the control with exactly that id
QueryCtrl(t, q) ==
    IF q.flag
    THEN IF t.next_ctrl
         THEN {c \in t.ctrls :
                  /\ c.id > q.id
                  /\ \A d \in t.ctrls : d.id > q.id => c.id <= d.id}
         ELSE {}
    ELSE {c \in t.ctrls : c.id = q.id}

QueryCtrlOk(t, q) == QueryCtrl(t, q) # {}

\* qctrl as the driver fills it in on success
QueryCtrlReply(t, q) ==
    LET c == CHOOSE x \in QueryCtrl(t, q) : TRUE
    IN  [flag |-> FALSE, id |-> c.id, name |-> c.name, type |-> c.type,
         minimum |-> c.minimum, maximum |-> c.maximum, step |-> c.step,
         default_value |-> c.default_value, flags |-> c.flags]

\* an entry of the calloc'ed v4l2_control_info array
ZeroControl ==
    [id |-> 0, name |-> "NULL", type |-> 0, min |-> 0, max |-> 0, step |-> 0,
     default_value |-> 0, flags |-> 0]

\* an entry stored from qctrl under the given id
ControlInfo(q, id) ==
    [id |-> id, name |-> q.name, type |-> q.type, min |-> q.minimum,
     max |-> q.maximum, step |-> q.step, default_value |-> q.default_value,
     flags |-> q.flags]

CallGetControls ==
    \E t \in ControlTables :
        EnterWith("get_controls", [device_path |-> "/dev/video0"], "ctl_open",
                  [ctrl_count |-> 0, ctrl_list |-> <<>>,
                   qctrl |-> [ZeroQctrl EXCEPT !.flag = TRUE],
                   index |-> 0, using_next_ctrl |-> TRUE],
                  [table |-> t, changed |-> FALSE])

CtlDriverChange ==
    /\ pc \in {"ctl_count_next", "ctl_count_std", "ctl_count_priv", "ctl_alloc",
               "ctl_fill"}
    /\ DriverChange(ControlTables)

CtlOpen ==
    /\ pc = "ctl_open"
    /\ OpenOrFail("ctl_count_next")
    /\ UNCHANGED <<op, arg, loc, res, out, heap, dev>>

\* CtlCountNext with the legacy enumeration started whatever was counted
CtlCountNext_AlwaysLegacy ==
    /\ pc = "ctl_count_next"
    /\ IF QueryCtrlOk(dev.table, loc.qctrl)
       THEN LET q == QueryCtrlReply(dev.table, loc.qctrl)
            IN  /\ log' = Append(log, Logged("QUERYCTRL", 0))
                /\ loc' = [loc EXCEPT
                              !.qctrl = [q EXCEPT !.flag = TRUE],
                              !.ctrl_count = IF Disabled(q.flags) THEN @
                                             ELSE @ + 1]
                /\ UNCHANGED pc
       ELSE /\ log' = Append(log, Logged("QUERYCTRL", -1))
            /\ pc' = "ctl_count_std"
            /\ loc' = [loc EXCEPT !.qctrl.flag = FALSE,
                                  !.qctrl.id = V4L2_CID_BASE]
    /\ UNCHANGED <<op, arg, fds, subscribed, pending, ret, res, out, heap, dev>>

\* one VIDIOC_QUERYCTRL of the first pass with V4L2_CTRL_FLAG_NEXT_CTRL
CtlCountNext ==
    /\ pc = "ctl_count_next"
    /\ IF QueryCtrlOk(dev.table, loc.qctrl)
       THEN LET q == QueryCtrlReply(dev.table, loc.qctrl)
            IN  /\ log' = Append(log, Logged("QUERYCTRL", 0))
                /\ loc' = [loc EXCEPT
                              !.qctrl = [q EXCEPT !.flag = TRUE],
                              !.ctrl_count = IF Disabled(q.flags) THEN @
                                             ELSE @ + 1]
                /\ UNCHANGED pc
       ELSE /\ log' = Append(log, Logged("QUERYCTRL", -1))
            /\ IF loc.ctrl_count = 0
               THEN /\ pc' = "ctl_count_std"
                    /\ loc' = [loc EXCEPT !.qctrl.flag = FALSE,
                                          !.qctrl.id = V4L2_CID_BASE]
               ELSE /\ pc' = "ctl_alloc"
                    /\ UNCHANGED loc
    /\ UNCHANGED <<op, arg, fds, subscribed, pending, ret, res, out, heap, dev>>

\* one VIDIOC_QUERYCTRL of the first pass over the standard ID range
CtlCountStd ==
    /\ pc = "ctl_count_std"
    /\ LET ok == QueryCtrlOk(dev.table, loc.qctrl)
           q == IF ok THEN QueryCtrlReply(dev.table, loc.qctrl) ELSE loc.qctrl
           id == loc.qctrl.id + 1
       IN  /\ log' = Append(log, Logged("QUERYCTRL", IF ok THEN 0 ELSE -1))
           /\ loc' = [loc EXCEPT
                         !.qctrl = [q EXCEPT
                                       !.id = IF id < V4L2_CID_LASTP1 THEN id
                                              ELSE V4L2_CID_PRIVATE_BASE],
                         !.ctrl_count = IF ok /\ ~Disabled(q.flags) THEN @ + 1
                                        ELSE @]
           /\ pc' = (IF id < V4L2_CID_LASTP1 THEN "ctl_count_std"
                     ELSE "ctl_count_priv")
    /\ UNCHANGED <<op, arg, fds, subscribed, pending, ret, res, out, heap, dev>>

\* one VIDIOC_QUERYCTRL of the first pass over the private IDs, which ends at
\* the first ID the driver rejects
CtlCountPriv ==
    /\ pc = "ctl_count_priv"
    /\ IF QueryCtrlOk(dev.table, loc.qctrl)
       THEN LET q == QueryCtrlReply(dev.table, loc.qctrl)
            IN  /\ log' = Append(log, Logged("QUERYCTRL", 0))
                /\ loc' = [loc EXCEPT
                              !.qctrl = [q EXCEPT !.id = loc.qctrl.id + 1],
                              !.ctrl_count = IF Disabled(q.flags) THEN @
                                             ELSE @ + 1]
                /\ UNCHANGED <<pc, fds, subscribed, pending, ret, out>>
       ELSE IF loc.ctrl_count = 0
            THEN /\ log' = log \o <<Logged("QUERYCTRL", -1), Logged("close", 0)>>
                 /\ CloseAndReturn(0, [written |-> TRUE, list |-> "NULL",
                                       count |-> 0])
                 /\ UNCHANGED loc
            ELSE /\ log' = Append(log, Logged("QUERYCTRL", -1))
                 /\ pc' = "ctl_alloc"
                 /\ UNCHANGED <<loc, fds, subscribed, pending, ret, out>>
    /\ UNCHANGED <<op, arg, res, heap, dev>>

\* ctrl_list = calloc(ctrl_count, ...), then the second pass starts over
CtlAlloc ==
    /\ pc = "ctl_alloc"
    /\ \/ /\ loc' = [loc EXCEPT
                        !.ctrl_list = [i \in 1..loc.ctrl_count |-> ZeroControl],
                        !.qctrl = [ZeroQctrl EXCEPT !.flag = TRUE],
                        !.index = 0, !.using_next_ctrl = TRUE]
          /\ heap' = heap \cup {Block("ctrl_list", 0)}
          /\ pc' = "ctl_fill"
          /\ UNCHANGED <<log, fds, subscribed, pending, ret, out>>
       \/ /\ log' = Append(log, Logged("close", 0))
          /\ CloseAndReturn(-ENOMEM, out)
          /\ UNCHANGED <<loc, heap>>
    /\ UNCHANGED <<op, arg, res, dev>>

\* the end of v4l2_get_controls with locals l: close, hand out list and count
CtlReturn(l) ==
    CloseAndReturn(0, [written |-> TRUE, list |-> l.ctrl_list,
                       count |-> l.ctrl_count])

\* locals after storing qctrl under id at position index and advancing index
CtlStore(l, id) ==
    [l EXCEPT !.ctrl_list = StoreAt(@, l.index, ControlInfo(l.qctrl, id)),
              !.index = @ + 1]

\* one iteration of the second pass while using_next_ctrl holds
CtlFillNext ==
    /\ pc = "ctl_fill"
    /\ loc.using_next_ctrl
    /\ IF ~QueryCtrlOk(dev.table, loc.qctrl)
       THEN /\ log' = Append(log, Logged("QUERYCTRL", -1))
            /\ loc' = [loc EXCEPT !.using_next_ctrl = FALSE,
                                  !.qctrl.flag = FALSE,
                                  !.qctrl.id = V4L2_CID_BASE]
            /\ UNCHANGED <<pc, fds, subscribed, pending, ret, out, heap>>
       ELSE LET q == QueryCtrlReply(dev.table, loc.qctrl)
                l == CtlStore([loc EXCEPT !.qctrl = q], q.id)
            IN  IF Disabled(q.flags)
                THEN /\ log' = Append(log, Logged("QUERYCTRL", 0))
                     /\ loc' = [loc EXCEPT !.qctrl = [q EXCEPT !.flag = TRUE]]
                     /\ UNCHANGED <<pc, fds, subscribed, pending, ret, out, heap>>
                ELSE /\ loc' = [l EXCEPT !.qctrl.flag = TRUE]
                     /\ heap' = heap \cup {Block("ctrl_name", loc.index)}
                     /\ IF l.index < l.ctrl_count
                        THEN /\ log' = Append(log, Logged("QUERYCTRL", 0))
                             /\ UNCHANGED <<pc, fds, subscribed, pending, ret, out>>
                        ELSE /\ log' = log \o <<Logged("QUERYCTRL", 0),
                                                Logged("close", 0)>>
                             /\ CtlReturn(l)
    /\ UNCHANGED <<op, arg, res, dev>>

\* one iteration of the second pass in the legacy enumeration
CtlFillLegacy ==
    /\ pc = "ctl_fill"
    /\ ~loc.using_next_ctrl
    /\ LET id == loc.qctrl.id
           ok == QueryCtrlOk(dev.table, loc.qctrl)
           q == IF ok THEN QueryCtrlReply(dev.table, loc.qctrl) ELSE loc.qctrl
           found == ok /\ ~Disabled(q.flags)
           l == CtlStore([loc EXCEPT !.qctrl = [q EXCEPT !.id = id + 1]], id)
           queried == Append(log, Logged("QUERYCTRL", IF ok THEN 0 ELSE -1))
           stored == /\ loc' = l
                     /\ heap' = heap \cup {Block("ctrl_name", loc.index)}
                     /\ IF l.index < l.ctrl_count
                        THEN /\ log' = queried
                             /\ UNCHANGED <<pc, fds, subscribed, pending, ret, out>>
                        ELSE /\ log' = Append(queried, Logged("close", 0))
                             /\ CtlReturn(l)
       IN  IF id >= V4L2_CID_BASE /\ id < V4L2_CID_LASTP1
           THEN \* try standard controls
                IF found THEN stored
                ELSE /\ log' = queried
                     /\ loc' = [loc EXCEPT !.qctrl = [q EXCEPT !.id = id + 1]]
                     /\ UNCHANGED <<pc, fds, subscribed, pending, ret, out, heap>>
           ELSE IF id = V4L2_CID_LASTP1
           THEN \* the standard IDs are exhausted
                /\ loc' = [loc EXCEPT !.qctrl.id = V4L2_CID_PRIVATE_BASE]
                /\ UNCHANGED <<pc, log, fds, subscribed, pending, ret, out, heap>>
           ELSE IF id >= V4L2_CID_PRIVATE_BASE
           THEN \* query private controls
                IF found THEN stored
                ELSE \* no more private controls
                     /\ log' = Append(queried, Logged("close", 0))
                     /\ loc' = [loc EXCEPT !.qctrl = q]
                     /\ CtlReturn(loc)
                     /\ UNCHANGED heap
           ELSE UNCHANGED <<pc, log, loc, fds, subscribed, pending, ret, out, heap>>
    /\ UNCHANGED <<op, arg, res, dev>>

----------------------------------------------------------------------------
(* v4l2_controls.c: v4l2_get_menu_items *)

EINVAL == 22

\* width in bits of the unsigned menu index (qmenu.index, __u32), scaled down
IndexBits == 3

IndexModulus == Pow2(IndexBits)

\* the conversion of a signed value to the unsigned index type
ToIndex(x) == x % IndexModulus

\* most VIDIOC_QUERYMENU calls followed in one pass: one trip around the
\* index type and two more
MaxQueries == IndexModulus + 2

MenuControlId == V4L2_CID_PRIVATE_BASE + 1

\* the (minimum, maximum) pairs a driver may declare for a menu control
MenuRanges == {<<0, 2>>, <<1, 2>>, <<2, 1>>, <<0, -1>>}

\* the control the driver has under MenuControlId, if any
MenuCtrlSets ==
    {{}, {Ctrl(MenuControlId, "Gain", V4L2_CTRL_TYPE_INTEGER, 15, 0)}}
    \cup {{[Ctrl(MenuControlId, "Mode", ty, r[2], 0) EXCEPT !.minimum = r[1]]} :
             ty \in {V4L2_CTRL_TYPE_MENU, V4L2_CTRL_TYPE_INTEGER_MENU},
             r \in MenuRanges}

\* the sets of indices for which the driver answers VIDIOC_QUERYMENU
MenuIndexSets == {{}, {0}, {0, 2}, {0, 1, 2}}

MenuTables ==
    {[next_ctrl |-> TRUE, ctrls |-> c, menu |-> m] :
        c \in MenuCtrlSets, m \in MenuIndexSets}

\* what the driver reports for an index it accepts: a name, or for an integer
\* menu a value
MenuName(index) == <<"Off", "Auto", "Manual">>[index + 1]

MenuValue(index) == <<0, 50, 12000>>[index + 1]

\* struct v4l2_menu_item after calloc
ZeroMenuItem == [id |-> 0, index |-> 0, name |-> "NULL"]

\* an entry that does not record which index it is
MenuItem_IndexZero(type, id, index) ==
    [id |-> id, index |-> 0,
     name |-> IF type = V4L2_CTRL_TYPE_MENU THEN MenuName(index)
              ELSE ToString(MenuValue(index))]

\* the entry stored for an accepted index; "%d" renders an integer menu value
MenuItem(type, id, index) ==
    [id |-> id, index |-> index,
     name |-> IF type = V4L2_CTRL_TYPE_MENU THEN MenuName(index)
              ELSE ToString(MenuValue(index))]

CallGetMenuItems ==
    \E t \in MenuTables :
        EnterWith("get_menu_items",
                  [device_path |-> "/dev/video0", control_id |-> MenuControlId],
                  "menu_open",
                  [item_count |-> 0, item_list |-> <<>>,
                   qctrl |-> [ZeroQctrl EXCEPT !.id = MenuControlId],
                   qmenu_index |-> 0, index |-> 0],
                  [table |-> t, changed |-> FALSE])

\* the driver answers VIDIOC_QUERYMENU differently from now on
MenuDriverChange ==
    /\ pc \in {"menu_count", "menu_alloc", "menu_fill"}
    /\ \E m \in MenuIndexSets \ {dev.table.menu} :
        dev' = [table |-> [dev.table EXCEPT !.menu = m], changed |-> TRUE]
    /\ UNCHANGED <<pc, op, arg, fds, subscribed, pending, log, loc, ret, res,
                   out, heap>>

MenuOpen ==
    /\ pc = "menu_open"
    /\ OpenOrFail("menu_query")
    /\ UNCHANGED <<op, arg, loc, res, out, heap, dev>>

\* MenuQuery without the test of the control's type
MenuQuery_NoTypeTest ==
    /\ pc = "menu_query"
    /\ IF ~QueryCtrlOk(dev.table, loc.qctrl)
       THEN /\ log' = log \o <<Logged("QUERYCTRL", -1), Logged("close", 0)>>
            /\ \E e \in Errnos : CloseAndReturn(-e, out)
            /\ UNCHANGED loc
       ELSE LET q == QueryCtrlReply(dev.table, loc.qctrl)
            IN  /\ loc' = [loc EXCEPT !.qctrl = q,
                                      !.qmenu_index = ToIndex(q.minimum)]
                /\ log' = Append(log, Logged("QUERYCTRL", 0))
                /\ pc' = "menu_count"
                /\ UNCHANGED <<fds, subscribed, pending, ret, out>>
    /\ UNCHANGED <<op, arg, res, heap, dev>>

\* VIDIOC_QUERYCTRL for the control, then the type test
MenuQuery ==
    /\ pc = "menu_query"
    /\ IF ~QueryCtrlOk(dev.table, loc.qctrl)
       THEN /\ log' = log \o <<Logged("QUERYCTRL", -1), Logged("close", 0)>>
            /\ \E e \in Errnos : CloseAndReturn(-e, out)
            /\ UNCHANGED loc
       ELSE LET q == QueryCtrlReply(dev.table, loc.qctrl)
            IN  /\ loc' = [loc EXCEPT !.qctrl = q,
                                      !.qmenu_index = ToIndex(q.minimum)]
                /\ IF q.type # V4L2_CTRL_TYPE_MENU
                      /\ q.type # V4L2_CTRL_TYPE_INTEGER_MENU
                   THEN /\ log' = log \o <<Logged("QUERYCTRL", 0),
                                           Logged("close", 0)>>
                        /\ CloseAndReturn(-EINVAL, out)
                   ELSE /\ log' = Append(log, Logged("QUERYCTRL", 0))
                        /\ pc' = "menu_count"
                        /\ UNCHANGED <<fds, subscribed, pending, ret, out>>
    /\ UNCHANGED <<op, arg, res, heap, dev>>

\* one evaluation of the first loop's condition, and its body if it holds
MenuCount ==
    /\ pc = "menu_count"
    /\ IF loc.qmenu_index <= ToIndex(loc.qctrl.maximum)
       THEN LET ok == loc.qmenu_index \in dev.table.menu
            IN  /\ CountOf(log, "QUERYMENU") < MaxQueries
                /\ log' = Append(log, Logged("QUERYMENU", IF ok THEN 0 ELSE -1))
                /\ loc' = [loc EXCEPT
                              !.item_count = IF ok THEN @ + 1 ELSE @,
                              !.qmenu_index = ToIndex(@ + 1)]
                /\ UNCHANGED <<pc, fds, subscribed, pending, ret, out>>
       ELSE IF loc.item_count = 0
            THEN /\ log' = Append(log, Logged("close", 0))
                 /\ CloseAndReturn(0, [written |-> TRUE, list |-> "NULL",
                                       count |-> 0])
                 /\ UNCHANGED loc
            ELSE /\ pc' = "menu_alloc"
                 /\ UNCHANGED <<log, loc, fds, subscribed, pending, ret, out>>
    /\ UNCHANGED <<op, arg, res, heap, dev>>

MenuAlloc ==
    /\ pc = "menu_alloc"
    /\ \/ /\ loc' = [loc EXCEPT
                        !.item_list = [i \in 1..loc.item_count |-> ZeroMenuItem],
                        !.qmenu_index = ToIndex(loc.qctrl.minimum),
                        !.index = 0]
          /\ heap' = heap \cup {Block("item_list", 0)}
          /\ pc' = "menu_fill"
          /\ UNCHANGED <<log, fds, subscribed, pending, ret, out>>
       \/ /\ log' = Append(log, Logged("close", 0))
          /\ CloseAndReturn(-ENOMEM, out)
          /\ UNCHANGED <<loc, heap>>
    /\ UNCHANGED <<op, arg, res, dev>>

\* one evaluation of the second loop's condition, and its body if it holds
MenuFill ==
    /\ pc = "menu_fill"
    /\ IF /\ loc.qmenu_index <= ToIndex(loc.qctrl.maximum)
          /\ loc.index < loc.item_count
       THEN LET ok == loc.qmenu_index \in dev.table.menu
            IN  /\ CountOf(log, "QUERYMENU") < 2 * MaxQueries
                /\ log' = Append(log, Logged("QUERYMENU", IF ok THEN 0 ELSE -1))
                /\ loc' = [loc EXCEPT
                              !.item_list =
                                  IF ok THEN StoreAt(@, loc.index,
                                                     MenuItem(loc.qctrl.type,
                                                              arg.control_id,
                                                              loc.qmenu_index))
                                  ELSE @,
                              !.index = IF ok THEN @ + 1 ELSE @,
                              !.qmenu_index = ToIndex(@ + 1)]
                /\ heap' = (IF ok THEN heap \cup {Block("item_name", loc.index)}
                            ELSE heap)
                /\ UNCHANGED <<pc, fds, subscribed, pending, ret, out>>
       ELSE /\ log' = Append(log, Logged("close", 0))
            /\ CloseAndReturn(0, [written |-> TRUE, list |-> loc.item_list,
                                  count |-> loc.item_count])
            /\ UNCHANGED <<loc, heap>>
    /\ UNCHANGED <<op, arg, res, dev>>

----------------------------------------------------------------------------
(* v4l2_device.c: v4l2_find_devices *)

ENOENT == 2

\* an entry of /sys/class/video4linux with what the node answers: whether it
\* opens, whether VIDIOC_QUERYCAP succeeds and with which capability words,
\* and the content of its sysfs index file
Node(d_name, d_type, opens, querycap, capabilities, device_caps, bus, index) ==
    [d_name |-> d_name, d_type |-> d_type, opens |-> opens,
     querycap |-> querycap, capabilities |-> capabilities,
     device_caps |-> device_caps, card |-> "Camera " \o d_name,
     bus_info |-> bus, index_value |-> index]

NodeVals ==
    {Node(".", "DT_DIR", FALSE, FALSE, {}, {}, "", 0),
     Node("video0", "DT_LNK", TRUE, TRUE,
          {"VIDEO_CAPTURE", "STREAMING", "DEVICE_CAPS"},
          {"VIDEO_CAPTURE", "STREAMING"}, "usb-0000:00:14.0-1", 0),
     Node("video1", "DT_LNK", TRUE, TRUE,
          {"VIDEO_CAPTURE", "META_CAPTURE", "STREAMING", "DEVICE_CAPS"},
          {"META_CAPTURE", "STREAMING"}, "usb-0000:00:14.0-1", 1),
     Node("video2", "DT_LNK", TRUE, TRUE, {"VIDEO_CAPTURE"}, {},
          "fe801000.csi", 0),
     Node("video3", "DT_LNK", FALSE, FALSE, {}, {}, "", 0),
     Node("video4", "DT_LNK", TRUE, FALSE, {}, {}, "", 0)}

\* an entry of /dev/v4l/by-id: its name and the target of the symlink
Link(d_name, target) == [d_name |-> d_name, d_type |-> "DT_LNK", target |-> target]

LinkSets ==
    {{},
     {Link("usb-HD_Webcam-video-index0", "../../video0"),
      Link("usb-HD_Webcam-video-index1", "../../video1")}}

\* the file system the scan sees: the class directory, or none, and by-id
DirTables ==
    {[dir |-> FALSE, entries |-> <<>>, links |-> {}]}
    \cup {[dir |-> TRUE, entries |-> e, links |-> l] :
             e \in SeqUpTo(NodeVals, MaxEntries), l \in LinkSets}

\* strstr(hay, needle) != NULL
Contains(hay, needle) ==
    \E i \in 1..(Len(hay) - Len(needle) + 1) :
        SubSeq(hay, i, i + Len(needle) - 1) = needle

\* the part of a path after its last '/', or all of it
RECURSIVE Basename(_)
Basename(path) ==
    IF \E i \in 1..Len(path) : SubSeq(path, i, i) = "/"
    THEN Basename(SubSeq(path, 2, Len(path)))
    ELSE path

\* a capability mask that is always the global field
EffectiveCaps_Global(cap) == cap.capabilities

\* the effective capability mask
EffectiveCaps(cap) ==
    IF "DEVICE_CAPS" \in cap.capabilities THEN cap.device_caps
    ELSE cap.capabilities

\* the by-id names that qualify as stable id of entry dp
StableIds(links, dp) ==
    {l.d_name : l \in {k \in links :
        /\ k.d_type = "DT_LNK"
        /\ Len(k.target) > 0
        /\ Basename(k.target) = dp.d_name
        /\ Contains(k.d_name, "-video-index" \o ToString(dp.index_value))}}

\* a synthetic id that always carries the platform- prefix
FallbackId_AlwaysPlatform(dp) ==
    "platform-" \o dp.bus_info \o "-video-index" \o ToString(dp.index_value)

\* the synthetic id built from bus_info and index
FallbackId(dp) ==
    IF Len(dp.bus_info) >= 4 /\ SubSeq(dp.bus_info, 1, 4) = "usb-"
    THEN dp.bus_info \o "-video-index" \o ToString(dp.index_value)
    ELSE "platform-" \o dp.bus_info \o "-video-index" \o ToString(dp.index_value)

CallFindDevices ==
    \E t \in DirTables :
        EnterWith("find_devices", [none |-> TRUE], "fd_opendir",
                  [dev_count |-> 0, dev_list |-> <<>>, dirs |-> 0, pos |-> 0],
                  [table |-> t, changed |-> FALSE])

FdOpendir ==
    /\ pc = "fd_opendir"
    /\ IF dev.table.dir
       THEN /\ log' = Append(log, Logged("opendir", 0))
            /\ loc' = [loc EXCEPT !.dirs = @ + 1]
            /\ pc' = "fd_readdir"
            /\ UNCHANGED ret
       ELSE /\ log' = Append(log, Logged("opendir", -1))
            /\ pc' = "idle"
            /\ ret' = -ENOENT
            /\ UNCHANGED loc
    /\ UNCHANGED <<op, arg, fds, subscribed, pending, res, out, heap, dev>>

\* readdir: the next entry, directories skipped, or the end of the scan
FdReaddir ==
    /\ pc = "fd_readdir"
    /\ IF loc.pos < Len(dev.table.entries)
       THEN /\ loc' = [loc EXCEPT !.pos = @ + 1]
            /\ pc' = (IF dev.table.entries[loc.pos + 1].d_type = "DT_DIR"
                      THEN "fd_readdir" ELSE "fd_open")
            /\ UNCHANGED <<log, ret, out>>
       ELSE /\ log' = Append(log, Logged("closedir", 0))
            /\ loc' = [loc EXCEPT !.dirs = @ - 1]
            /\ pc' = "idle"
            /\ ret' = 0
            /\ out' = [written |-> TRUE, list |-> loc.dev_list,
                       count |-> loc.dev_count]
    /\ UNCHANGED <<op, arg, fds, subscribed, pending, res, heap, dev>>

\* an open whose failure ends the scan with an error
FdOpen_AbortOnFailure ==
    /\ pc = "fd_open"
    /\ LET ok == dev.table.entries[loc.pos].opens
       IN  /\ log' = Append(log, Logged("open", IF ok THEN 0 ELSE -1))
           /\ OpenDevice(ok)
           /\ pc' = (IF ok THEN "fd_querycap" ELSE "idle")
           /\ ret' = (IF ok THEN ret ELSE -ENOENT)
    /\ UNCHANGED <<op, arg, loc, res, out, heap, dev>>

FdOpen ==
    /\ pc = "fd_open"
    /\ LET ok == dev.table.entries[loc.pos].opens
       IN  /\ log' = Append(log, Logged("open", IF ok THEN 0 ELSE -1))
           /\ OpenDevice(ok)
           /\ pc' = (IF ok THEN "fd_querycap" ELSE "fd_readdir")
    /\ UNCHANGED <<op, arg, loc, ret, res, out, heap, dev>>

\* VIDIOC_QUERYCAP and the capture test
FdQueryCap ==
    /\ pc = "fd_querycap"
    /\ LET dp == dev.table.entries[loc.pos]
       IN  IF dp.querycap /\ "VIDEO_CAPTURE" \in EffectiveCaps(dp)
           THEN /\ log' = Append(log, Logged("QUERYCAP", 0))
                /\ pc' = "fd_realloc"
                /\ UNCHANGED <<fds, subscribed, pending>>
           ELSE /\ log' = log \o <<Logged("QUERYCAP",
                                          IF dp.querycap THEN 0 ELSE -1),
                                   Logged("close", 0)>>
                /\ CloseDevice
                /\ pc' = "fd_readdir"
    /\ UNCHANGED <<op, arg, loc, ret, res, out, heap, dev>>

\* realloc(dev_list, ...): on failure free(dev_list), closedir, close, -ENOMEM
FdRealloc ==
    /\ pc = "fd_realloc"
    /\ \/ /\ heap' = heap \cup {Block("dev_list", 0)}
          /\ pc' = "fd_fill"
          /\ UNCHANGED <<log, loc, fds, subscribed, pending, ret>>
       \/ /\ heap' = heap \ {Block("dev_list", 0)}
          /\ log' = log \o <<Logged("closedir", 0), Logged("close", 0)>>
          /\ loc' = [loc EXCEPT !.dirs = @ - 1]
          /\ CloseDevice
          /\ pc' = "idle"
          /\ ret' = -ENOMEM
    /\ UNCHANGED <<op, arg, res, out, dev>>

\* the record of the node is filled in and the node closed
FdFill ==
    /\ pc = "fd_fill"
    /\ LET dp == dev.table.entries[loc.pos]
           ids == StableIds(dev.table.links, dp)
       IN  \E id \in (IF ids = {} THEN {FallbackId(dp)} ELSE ids) :
               loc' = [loc EXCEPT
                          !.dev_list = Append(@,
                              [device_path |-> "/dev/" \o dp.d_name,
                               device_name |-> dp.card,
                               device_id |-> id,
                               caps |-> EffectiveCaps(dp)]),
                          !.dev_count = @ + 1]
    /\ heap' = heap \cup {Block("device_path", loc.dev_count),
                          Block("device_name", loc.dev_count),
                          Block("device_id", loc.dev_count)}
    /\ log' = Append(log, Logged("close", 0))
    /\ CloseDevice
    /\ pc' = "fd_readdir"
    /\ UNCHANGED <<op, arg, ret, res, out, dev>>

----------------------------------------------------------------------------
(* v4l2_device.c: v4l2_free_devices *)

\* the strings of entry i without its device_id
EntryBlocks_NoId(i) == <<Block("device_path", i), Block("device_name", i)>>

\* the strings of entry i of a device list, in the order they are freed
EntryBlocks(i) ==
    <<Block("device_path", i), Block("device_name", i), Block("device_id", i)>>

\* the caller hands the list and count of the v4l2_find_devices call that
\* just returned 0 to v4l2_free_devices; a NULL list returns at once
CallFreeDevices ==
    /\ pc = "idle"
    /\ op = "find_devices"
    /\ ret = 0
    /\ out.written
    /\ op' = "free_devices"
    /\ arg' = [devices |-> out.list, count |-> out.count]
    /\ loc' = [i |-> 0, freed |-> <<>>]
    /\ pc' = (IF out.list = <<>> THEN "idle" ELSE "free_entry")
    /\ log' = <<>>
    /\ out' = Untouched
    /\ dev' = NoDev
    /\ UNCHANGED <<fds, subscribed, pending, ret, res, heap>>

\* v4l2_free_devices(NULL, 0)
CallFreeDevicesNull ==
    EnterWith("free_devices", [devices |-> <<>>, count |-> 0], "idle",
              [i |-> 0, freed |-> <<>>], NoDev)

\* one iteration of the loop: free the three strings of devices[i]; after
\* the loop free(devices)
FreeEntry ==
    /\ pc = "free_entry"
    /\ IF loc.i < arg.count
       THEN /\ loc' = [loc EXCEPT !.freed = @ \o EntryBlocks(loc.i),
                                  !.i = @ + 1]
            /\ heap' = heap \ {EntryBlocks(loc.i)[k] :
                                   k \in 1..Len(EntryBlocks(loc.i))}
            /\ UNCHANGED pc
       ELSE /\ loc' = [loc EXCEPT !.freed = Append(@, Block("dev_list", 0))]
            /\ heap' = heap \ {Block("dev_list", 0)}
            /\ pc' = "idle"
    /\ UNCHANGED <<op, arg, fds, subscribed, pending, log, ret, res, out, dev>>

----------------------------------------------------------------------------
(* v4l2_utils.c: v4l2_framerate_to_fps *)

\* number of significand bits of a float (FLT_MANT_DIG), scaled down with
\* the uint32_t width
MantissaBits == 10

\* the distance between neighbouring floats at x >= 0
RECURSIVE Ulp(_)
Ulp(x) == IF x < Pow2(MantissaBits) THEN 1 ELSE 2 * Ulp(x \div 2)

\* (float)x of a uint32_t x: the nearest float, the even one of two equally
\* near
ToFloat(x) ==
    LET u == Ulp(x)
        q == x \div u
        r == x % u
    IN  IF 2 * r < u THEN q * u
        ELSE IF 2 * r > u THEN (q + 1) * u
        ELSE IF q % 2 = 0 THEN q * u
        ELSE (q + 1) * u

\* the 0.0f the function returns
FloatZero == [kind |-> "finite", n |-> 0, d |-> 1]

v4l2_framerate_to_fps_NoZeroTest(framerate) ==
    FloatDiv(ToFloat(framerate.denominator), ToFloat(framerate.numerator))

v4l2_framerate_to_fps_Inverted(framerate) ==
    IF framerate.numerator = 0 THEN FloatZero
    ELSE FloatDiv(ToFloat(framerate.numerator), ToFloat(framerate.denominator))

\* if (framerate.numerator == 0) return 0.0f;
\* return (float)framerate.denominator / framerate.numerator;
\* the numerator is converted to float as well (usual arithmetic conversions)
v4l2_framerate_to_fps(framerate) ==
    IF framerate.numerator = 0 THEN FloatZero
    ELSE FloatDiv(ToFloat(framerate.denominator), ToFloat(framerate.numerator))

\* framerates a caller passes: the table's, a zero numerator, a zero pair,
\* ordinary quotients and values no float holds exactly
FramerateVals ==
    {common_framerates[i] : i \in 1..num_common_framerates}
        \cup {Ival(0, 1), Ival(0, 0), Ival(0, 30), Ival(2, 15), Ival(2, 60),
              Ival(1, Pow2(MantissaBits) + 1), Ival(1, Pow2(MantissaBits) + 3),
              Ival(Pow2(MantissaBits) + 1, Pow2(MantissaBits) + 3),
              Ival(1, U32Modulus - 1), Ival(U32Modulus - 1, U32Modulus - 1)}

\* fps = v4l2_framerate_to_fps(framerate): the call runs to its return in
\* one step, it touches nothing but its argument
CallFramerateToFps ==
    /\ \E framerate \in FramerateVals :
        /\ arg' = [framerate |-> framerate]
        /\ res' = v4l2_framerate_to_fps(framerate)
    /\ pc = "idle"
    /\ op = "none"
    /\ op' = "framerate_to_fps"
    /\ UNCHANGED <<pc, fds, subscribed, pending, log, loc, ret, out, heap, dev>>

----------------------------------------------------------------------------
(* v4l2_utils.c: v4l2_pack_tuple and v4l2_unpack_tuple *)

\* the 32 bits of an int32_t, as a __u32 (two's complement)
ToU32(x) == IF x < 0 THEN U32(1, (x + 2147483647) + 1) ELSE U32(0, x)

\* ((uint64_t)a << 32) | ((uint64_t)b & 0xffffffff): a 64-bit value as its
\* upper and lower 32 bits; the shift drops the sign extension of a, the
\* mask that of b
v4l2_pack_tuple(a, b) == [hi |-> ToU32(a), lo |-> ToU32(b)]

\* upper half 0: *a = (int32_t)(packed >> 16), *b = (int32_t)(packed & 0xffff);
\* otherwise *a = (int32_t)(packed >> 32), *b = (int32_t)(packed & 0xffffffff)
v4l2_unpack_tuple(packed) ==
    IF packed.hi = U32(0, 0)
    THEN [a |-> packed.lo.top * 32768 + packed.lo.low \div 65536,
          b |-> packed.lo.low % 65536]
    ELSE [a |-> ToInt32(packed.hi), b |-> ToInt32(packed.lo)]

\* int32_t values a caller packs: 0, small ones, the ends of the 16-bit
\* range, frame sizes, and the ends of the type
Int32Vals ==
    {0, 1, -1, 2, 640, 1920, 65535, 65536, -65536, 2147483647,
     (-2147483647) - 1}

\* v4l2_pack_tuple(a, b) followed by v4l2_unpack_tuple(&a, &b, packed)
CallPackUnpack ==
    /\ pc = "idle"
    /\ op = "none"
    /\ \E a \in Int32Vals : \E b \in Int32Vals :
        /\ arg' = [a |-> a, b |-> b]
        /\ res' = [packed |-> v4l2_pack_tuple(a, b),
                   unpacked |-> v4l2_unpack_tuple(v4l2_pack_tuple(a, b))]
    /\ op' = "pack_unpack"
    /\ UNCHANGED <<pc, fds, subscribed, pending, log, loc, ret, out, heap, dev>>

----------------------------------------------------------------------------
(* v4l2_utils.c: v4l2_format_to_string, called by one thread or by two at
   the same time *)

\* V4L2_PIX_FMT_YUYV and V4L2_PIX_FMT_MJPEG, v4l2_fourcc('Y','U','Y','V') and
\* v4l2_fourcc('M','J','P','G')
PixelFormats == {1448695129, 1196444237}

\* v4l2_fourcc_to_str: the character stored at str[k], k = 0..4
FourccChar(fourcc, k) ==
    IF k = 4 THEN 0 ELSE (fourcc \div Pow2(8 * k)) % 256

\* what v4l2_fourcc_to_str leaves in a buffer no one else writes
FourccStr(fourcc) == [k \in 1..5 |-> FourccChar(fourcc, k - 1)]

\* strncpy(fourcc, str, 5): the characters up to the first NUL, NULs after
Strncpy(str) ==
    [k \in 1..5 |-> IF \E j \in 1..k : str[j] = 0 THEN 0 ELSE str[k]]

\* the threads inside v4l2_format_to_string
Threads == DOMAIN arg.format

\* each thread calls v4l2_format_to_string(format) for a format of the device
\* it probes; str is the function's 'static char str[8]', one object for
\* the whole process, zero at program start
CallFormatToString ==
    \E n \in 1..2 : \E f \in [1..n -> PixelFormats] :
        Enter("format_to_string", [format |-> f], "fourcc_to_str",
              [str |-> [k \in 1..5 |-> 0],
               at |-> [t \in 1..n |-> 0],
               fourcc |-> [t \in 1..n |-> <<>>]])

\* one store of v4l2_fourcc_to_str by one thread: str[at] = ...
FormatStore ==
    /\ pc = "fourcc_to_str"
    /\ \E t \in Threads :
        /\ loc.at[t] < 5
        /\ loc' = [loc EXCEPT
                      !.str[loc.at[t] + 1] = FourccChar(arg.format[t], loc.at[t]),
                      !.at[t] = @ + 1]
    /\ UNCHANGED <<pc, op, arg, fds, subscribed, pending, log, ret, res, out,
                   heap, dev>>

\* the function has returned str to a thread, which copies the string out
\* of it (strncpy(fourcc, v4l2_format_to_string(...), 5)); the operation is
\* over when every thread has its copy
FormatCopy ==
    /\ pc = "fourcc_to_str"
    /\ \E t \in Threads :
        /\ loc.at[t] = 5
        /\ LET fourcc == [loc.fourcc EXCEPT ![t] = Strncpy(loc.str)]
               at == [loc.at EXCEPT ![t] = 6]
           IN  /\ loc' = [loc EXCEPT !.fourcc = fourcc, !.at = at]
               /\ IF \A u \in Threads : at[u] = 6
                  THEN pc' = "idle" /\ res' = [fourcc |-> fourcc]
                  ELSE UNCHANGED <<pc, res>>
    /\ UNCHANGED <<op, arg, fds, subscribed, pending, log, ret, out, heap, dev>>

----------------------------------------------------------------------------
(* v4l2_signal.c: the two status functions asked about a device in one
   state *)

\* v4l2_get_device_status of a device whose open, VIDIOC_QUERYCAP and
\* VIDIOC_G_DV_TIMINGS answer ok, cap and r
v4l2_get_device_status(ok, cap, r) ==
    IF ~ok THEN InitialStatus
    ELSE IF cap.ret < 0 THEN InitialStatus
    ELSE ClassifyDevice(cap, r)

\* v4l2_get_dv_timings of that device
v4l2_get_dv_timings(ok, r) ==
    IF ~ok THEN InitialSignal ELSE ClassifySignal(r)

\* a caller asks both functions while the device's answers stay the same
CallBothStatus ==
    /\ pc = "idle"
    /\ op = "none"
    /\ \E ok \in BOOLEAN : \E cap \in CapReplies : \E r \in TimingsReplies :
        /\ arg' = [open |-> ok, cap |-> cap, timings |-> r]
        /\ res' = [status |-> v4l2_get_device_status(ok, cap, r),
                   signal |-> v4l2_get_dv_timings(ok, r)]
    /\ op' = "both_status"
    /\ UNCHANGED <<pc, fds, subscribed, pending, log, loc, ret, out, heap, dev>>

----------------------------------------------------------------------------
(* main.c: the resolution whose framerates main lists for a format *)

\* the resolutions main samples, in the order it samples them
common_res == <<Size(1920, 1080), Size(1280, 720), Size(640, 480)>>

\* a > b on the floats v4l2_framerate_to_fps returns
FloatGt(a, b) == a.n * b.d > b.n * a.d

\* the loop over resolutions[1..]: the entry with the largest
\* width * height, replaced only by a strictly larger one
RECURSIVE MaxResolution(_, _, _)
MaxResolution(resolutions, k, max) ==
    IF k > Len(resolutions) THEN max
    ELSE MaxResolution(resolutions, k + 1,
             IF resolutions[k].width * resolutions[k].height
                    > max.width * max.height
             THEN resolutions[k] ELSE max)

\* the loop over temp_rates[1..]: the largest fps of the list
RECURSIVE MaxTempFps(_, _, _)
MaxTempFps(temp_rates, l, max_temp_fps) ==
    IF l > Len(temp_rates) THEN max_temp_fps
    ELSE LET fps == v4l2_framerate_to_fps(temp_rates[l])
         IN  MaxTempFps(temp_rates, l + 1,
                 IF FloatGt(fps, max_temp_fps) THEN fps ELSE max_temp_fps)

\* the loop over common_res from entry r on; rates[r] is what
\* v4l2_get_framerates answers for common_res[r], asked only when the
\* resolution is in the list
RECURSIVE SampleCommon(_, _, _, _)
SampleCommon(resolutions, rates, r, st) ==
    IF r > Len(common_res) THEN st
    ELSE LET found == \E k \in 1..Len(resolutions) :
                          resolutions[k] = common_res[r]
             temp_rates == rates[r].list
             max_temp_fps ==
                 MaxTempFps(temp_rates, 2, v4l2_framerate_to_fps(temp_rates[1]))
         IN  SampleCommon(resolutions, rates, r + 1,
                 IF /\ found
                    /\ rates[r].ret >= 0
                    /\ Len(temp_rates) > 0
                    /\ FloatGt(max_temp_fps, st.highest_fps)
                 THEN [best_res |-> common_res[r],
                       highest_fps |-> max_temp_fps]
                 ELSE st)

BestResolution_FirstUsable(resolutions, rates) ==
    LET max == MaxResolution(resolutions, 2, resolutions[1])
        Usable(r) ==
            /\ \E k \in 1..Len(resolutions) : resolutions[k] = common_res[r]
            /\ rates[r].ret >= 0
            /\ Len(rates[r].list) > 0
            /\ FloatGt(MaxTempFps(rates[r].list, 2,
                                  v4l2_framerate_to_fps(rates[r].list[1])),
                       [kind |-> "finite", n |-> 5, d |-> 1])
    IN  IF \E r \in 1..Len(common_res) : Usable(r)
        THEN common_res[CHOOSE r \in 1..Len(common_res) :
                            Usable(r) /\ \A q \in 1..(r - 1) : ~Usable(q)]
        ELSE max

\* best_res of main for a non-empty resolution list: the sampled resolution
\* kept by the loop unless highest_fps < 5.0f, the largest one then
BestResolution(resolutions, rates) ==
    LET max == MaxResolution(resolutions, 2, resolutions[1])
        st == SampleCommon(resolutions, rates, 1,
                           [best_res |-> max, highest_fps |-> FloatZero])
    IN  IF FloatGt([kind |-> "finite", n |-> 5, d |-> 1], st.highest_fps)
        THEN max
        ELSE st.best_res

\* resolution lists v4l2_get_resolutions hands to main
ResolutionLists ==
    LET S == {Size(1920, 1080), Size(1280, 720), Size(640, 480),
              Size(3840, 2160), Size(2160, 3840)}
    IN  UNION {[1..n -> S] : n \in 1..2}
            \cup {<<Size(640, 480), Size(1280, 720), Size(1920, 1080)>>}

\* answers of v4l2_get_framerates: a failure, an empty list, lists whose
\* largest fps is 60, 30, 5 and 4
RateReplies ==
    {[ret |-> -19, list |-> <<>>], [ret |-> 0, list |-> <<>>],
     [ret |-> 0, list |-> <<Ival(1, 30), Ival(1, 60)>>],
     [ret |-> 0, list |-> <<Ival(1, 30)>>],
     [ret |-> 0, list |-> <<Ival(1, 5)>>],
     [ret |-> 0, list |-> <<Ival(1, 4)>>]}

\* main reaches the choice with the list of a format and makes it
CallBestResolution ==
    /\ pc = "idle"
    /\ op = "none"
    /\ \E resolutions \in ResolutionLists :
       \E rates \in [1..Len(common_res) -> RateReplies] :
        /\ arg' = [resolutions |-> resolutions, rates |-> rates]
        /\ res' = [best_res |-> BestResolution(resolutions, rates)]
    /\ op' = "best_resolution"
    /\ UNCHANGED <<pc, fds, subscribed, pending, log, loc, ret, out, heap, dev>>

----------------------------------------------------------------------------
(* The caller *)

\* the operations of v4l2_signal.c
NextSignal ==
    \/ CallStatus \/ StOpen \/ StQueryCap \/ StTimings \/ StClose
    \/ CallDvTimings \/ DvOpen \/ DvTimings \/ DvClose
    \/ CallWait \/ WaitOpen \/ WaitSubscribe \/ RaiseEvent
    \/ WaitSelectReady \/ WaitSelectTimeout \/ WaitSelectError
    \/ WaitDqEvent \/ WaitReturnEvent \/ WaitCleanup

\* the operations of v4l2_controls.c
NextControls ==
    \/ CallSetCtrl \/ SetCtrlOpen \/ SetCtrlIoctl
    \/ CallGetCtrl \/ GetCtrlOpen \/ GetCtrlIoctl
    \/ CallGetControls \/ CtlDriverChange \/ CtlOpen \/ CtlCountNext
    \/ CtlCountStd \/ CtlCountPriv \/ CtlAlloc \/ CtlFillNext \/ CtlFillLegacy
    \/ CallGetMenuItems \/ MenuDriverChange \/ MenuOpen \/ MenuQuery
    \/ MenuCount \/ MenuAlloc \/ MenuFill

\* the operations of v4l2_formats.c
NextFormats ==
    \/ CallGetFormats \/ FmtDriverChange \/ FmtOpen \/ FmtCount \/ FmtAlloc
    \/ FmtFill
    \/ CallGetResolutions \/ ResDriverChange \/ ResOpen \/ ResProbe \/ ResCount
    \/ ResRange \/ ResAlloc \/ ResFill \/ ResFillRange
    \/ CallGetFramerates \/ RateDriverChange \/ RateOpen \/ RateProbe
    \/ RateCount \/ RateRange \/ RateAlloc \/ RateFill \/ RateFillRange

\* the operations of v4l2_device.c
NextDevice ==
    \/ CallFindDevices \/ FdOpendir \/ FdReaddir \/ FdOpen \/ FdQueryCap
    \/ FdRealloc \/ FdFill
    \/ CallFreeDevices \/ CallFreeDevicesNull \/ FreeEntry

\* the functions of v4l2_utils.c
NextUtils ==
    \/ CallFramerateToFps \/ CallPackUnpack
    \/ CallFormatToString \/ FormatStore \/ FormatCopy

\* the program that uses the library
NextMain ==
    CallBestResolution \/ CallBothStatus

Next ==
    \/ NextMain
    \/ NextSignal \/ NextControls \/ NextFormats \/ NextDevice \/ NextUtils
    \/ ResultTaken

Spec == Init /\ [][Next]_vars

\* The program runs: every step of an operation in progress that does not
\* block is eventually taken.  select() completes when an event is queued or
\* when the timeout it was given elapses; nothing makes a signal arrive.
Progress ==
    \/ StOpen \/ StQueryCap \/ StTimings \/ StClose
    \/ DvOpen \/ DvTimings \/ DvClose
    \/ WaitOpen \/ WaitSubscribe
    \/ WaitSelectReady \/ WaitSelectTimeout
    \/ WaitDqEvent \/ WaitReturnEvent \/ WaitCleanup

\* the operations of v4l2_signal.c under that fairness
LiveSpec == Init /\ [][NextSignal \/ ResultTaken]_vars /\ WF_vars(Progress)

----------------------------------------------------------------------------
(* Properties *)

Returned(o) == pc = "idle" /\ op = o

WaitReturned == Returned("wait_for_source_change")

StatusReturned == pc = "idle" /\ op \in StatusOps

\* the timings query was made in this call (loc.timings holds its reply)
TimingsQueried == CountOf(log, "G_DV_TIMINGS") > 0

\* positions of a call in the log
At(l, call) == {i \in 1..Len(l) : l[i][1] = call}

\* C1: every query operation has closed every device handle it opened by the
\* time it returns, on every exit path: in a returned call no handle is open,
\* the log shows as many closes as successful opens, and the directory
\* streams of the device scan are closed as well.
C1_HandlesClosedOnReturn ==
    pc = "idle" /\ op # "none" =>
        /\ fds = 0
        /\ CountOf(log, "close") =
               Cardinality({i \in 1..Len(log) : log[i] = Logged("open", 0)})
        /\ op = "find_devices" => loc.dirs = 0

\* a call of v4l2_get_resolutions that allocated its list and then failed in
\* the third frame-size query has returned
C1_Witness ==
    /\ Returned("get_resolutions")
    /\ ret < 0
    /\ CountOf(log, "ENUM_FRAMESIZES") = 3
    /\ Has(log, "open", 0)

\* C2: in v4l2_wait_for_source_change, once SUBSCRIBE_EVENT succeeded, an
\* UNSUBSCRIBE_EVENT is issued after it and before the handle is closed, the
\* handle is closed before the call returns, and no subscription is left.
C2_UnsubscribeBeforeClose ==
    (op = "wait_for_source_change" /\ Has(log, "SUBSCRIBE_EVENT", 0)) =>
        /\ \A k \in At(log, "close") :
              \E i \in At(log, "SUBSCRIBE_EVENT"), j \in At(log, "UNSUBSCRIBE_EVENT") :
                  i < j /\ j < k
        /\ pc = "idle" =>
              /\ At(log, "close") # {}
              /\ At(log, "UNSUBSCRIBE_EVENT") # {}
              /\ ~subscribed
              /\ fds = 0

\* C2 witness: the call returned through the dequeue-failure path
C2_Witness ==
    /\ WaitReturned
    /\ Has(log, "SUBSCRIBE_EVENT", 0)
    /\ Has(log, "DQEVENT", -1)
    /\ At(log, "UNSUBSCRIBE_EVENT") # {}

\* C3: a positive return value of v4l2_wait_for_source_change means an event
\* was dequeued in the call and the value is that event's change flags.
C3_PositiveMeansEvent ==
    (WaitReturned /\ ret > 0) =>
        (loc.dequeued /\ Has(log, "DQEVENT", 0) /\ ret = ToInt32(loc.ev))

\* C4: v4l2_wait_for_source_change returns 0 only when the wait timed out:
\* never after an event was dequeued, never after open, subscription or the
\* wait failed.
C4_ZeroOnlyOnTimeout ==
    (WaitReturned /\ ret = 0) =>
        /\ Has(log, "select", 0)
        /\ ~loc.dequeued
        /\ ~Has(log, "open", -1)
        /\ ~Has(log, "SUBSCRIBE_EVENT", -1)
        /\ ~Has(log, "select", -1)

\* C5: a subscription failure is reported as -2, which differs from the -1 of
\* an open failure or a failed wait, and the handle is then closed without any
\* wait or dequeue.
C5_SubscribeFailureDistinct ==
    WaitReturned =>
        /\ Has(log, "SUBSCRIBE_EVENT", -1) =>
              /\ ret = -2
              /\ log = <<Logged("open", 0), Logged("SUBSCRIBE_EVENT", -1),
                         Logged("close", 0)>>
              /\ fds = 0
        /\ Has(log, "open", -1) => (ret = -1 /\ ret # WaitSubscribeFailed)
        /\ Has(log, "select", -1) => (ret = -1 /\ ret # WaitSubscribeFailed)

\* C5 witness: a call that failed to subscribe has returned
C5_Witness == WaitReturned /\ Has(log, "SUBSCRIBE_EVENT", -1) /\ ret = -2

\* C6: with timeout_ms > 0 the wait always ends and the call returns, with 0
\* when no event was raised (and no signal interrupted the wait); with
\* timeout_ms = 0 select() is given no timeout and never reports one.
C6_TimeoutReturnsZero ==
    /\ (pc = "w_select" /\ arg.timeout_ms > 0) ~>
          (WaitReturned /\ (ret = 0 \/ Has(log, "select", 1) \/ Has(log, "select", -1)))
    /\ [](WaitReturned /\ arg.timeout_ms > 0 /\ Has(log, "select", 0) => ret = 0)
    /\ [](op = "wait_for_source_change" /\ arg.timeout_ms = 0 =>
              ~Has(log, "select", 0))

\* C6 witness: a wait with a positive timeout timed out and returned 0
C6_Witness ==
    WaitReturned /\ arg.timeout_ms > 0 /\ Has(log, "select", 0) /\ ret = 0

\* C7: v4l2_get_device_status answers HDMI exactly when the timings query
\* succeeded or failed with ENOLINK or ENOLCK, whatever the driver name; and
\* an HDMI device is ready exactly when the query succeeded with width,
\* height and pixelclock all positive.
C7_HdmiClassification ==
    StatusReturned =>
        IF TimingsQueried
        THEN LET r == loc.timings
                 hdmi == r.ret = 0 \/ r.errno \in {"ENOLINK", "ENOLCK"}
             IN  /\ (res.device_type = V4L2_DEVICE_TYPE_HDMI) <=> hdmi
                 /\ hdmi =>
                      ((res.ready = 1) <=>
                          (r.ret = 0 /\ r.bt.width > 0 /\ r.bt.height > 0
                           /\ r.bt.pixelclock > 0))
        ELSE res.device_type # V4L2_DEVICE_TYPE_HDMI

\* C7 witness: a uvcvideo device whose timings query succeeds with zero
\* timings is classified HDMI and not ready
C7_Witness ==
    /\ Returned("get_device_status")
    /\ TimingsQueried
    /\ loc.cap.driver = "uvcvideo"
    /\ loc.timings.ret = 0
    /\ loc.timings.bt.pixelclock = 0
    /\ res = [device_type |-> V4L2_DEVICE_TYPE_HDMI, ready |-> 0]

\* C8: a uvcvideo device whose timings query fails with ENOTTY is a webcam
\* and ready.
C8_WebcamReady ==
    (StatusReturned /\ TimingsQueried /\ loc.cap.driver = "uvcvideo"
     /\ loc.timings.ret < 0 /\ loc.timings.errno = "ENOTTY") =>
        res = [device_type |-> V4L2_DEVICE_TYPE_WEBCAM, ready |-> 1]

\* C8 witness: v4l2_get_device_status returned for such a device
C8_Witness ==
    /\ Returned("get_device_status")
    /\ TimingsQueried
    /\ loc.cap.driver = "uvcvideo"
    /\ loc.timings.errno = "ENOTTY"
    /\ res.device_type = V4L2_DEVICE_TYPE_WEBCAM

\* C9: v4l2_device_is_ready returns 0 for every timings-query outcome that
\* v4l2_get_dv_timings classifies as NO_LINK, NO_SIGNAL, UNSTABLE or
\* OUT_OF_RANGE.
C9_ReadyOnlyWithSignal ==
    (Returned("device_is_ready") /\ TimingsQueried
     /\ loc.cap.driver # "uvcvideo"
     /\ ClassifySignal(loc.timings).state \in
            {V4L2_SIGNAL_STATE_NO_LINK, V4L2_SIGNAL_STATE_NO_SIGNAL,
             V4L2_SIGNAL_STATE_UNSTABLE, V4L2_SIGNAL_STATE_OUT_OF_RANGE}) =>
        ret = 0

\* C10: a call of v4l2_get_device_status, directly or through
\* v4l2_get_device_type or v4l2_device_is_ready, opens the device at most
\* once, as the first thing it does, and makes at most one capability query
\* and at most one timings query.
C10_SingleOpenSingleQuery ==
    op \in StatusOps =>
        /\ At(log, "open") \subseteq {1}
        /\ CountOf(log, "QUERYCAP") <= 1
        /\ CountOf(log, "G_DV_TIMINGS") <= 1
        /\ CountOf(log, "close") <= 1

\* C10 witness: v4l2_device_is_ready returned after one open and both queries
C10_Witness ==
    /\ Returned("device_is_ready")
    /\ CountOf(log, "open") = 1
    /\ CountOf(log, "QUERYCAP") = 1
    /\ CountOf(log, "G_DV_TIMINGS") = 1

DvReturned == Returned("get_dv_timings")

\* C11: v4l2_get_dv_timings issues one open and at most one timings query and
\* its state is fixed by their outcome: open failure gives NO_DEVICE, success
\* with width, height and pixelclock all positive LOCKED, success with zero
\* timings NO_SIGNAL, ENOLINK NO_LINK, ENOLCK UNSTABLE, ERANGE OUT_OF_RANGE,
\* ENOTTY NOT_SUPPORTED; the other fields are those of the timings when
\* LOCKED and zero otherwise, so equal outcomes give equal statuses.
C11_TimingsOutcomeToState ==
    DvReturned =>
        /\ CountOf(log, "open") = 1
        /\ IF Has(log, "open", -1)
           THEN /\ CountOf(log, "G_DV_TIMINGS") = 0
                /\ res = InitialSignal
                /\ res.state = V4L2_SIGNAL_STATE_NO_DEVICE
           ELSE LET r == loc.timings
                    locked == r.ret = 0 /\ r.bt.width > 0 /\ r.bt.height > 0
                                  /\ r.bt.pixelclock > 0
                IN  /\ CountOf(log, "G_DV_TIMINGS") = 1
                    /\ locked => res.state = V4L2_SIGNAL_STATE_LOCKED
                    /\ r.ret = 0 /\ r.bt.width = 0 /\ r.bt.height = 0
                           /\ r.bt.pixelclock = 0
                         => res.state = V4L2_SIGNAL_STATE_NO_SIGNAL
                    /\ r.ret # 0 /\ r.errno = "ENOLINK"
                         => res.state = V4L2_SIGNAL_STATE_NO_LINK
                    /\ r.ret # 0 /\ r.errno = "ENOLCK"
                         => res.state = V4L2_SIGNAL_STATE_UNSTABLE
                    /\ r.ret # 0 /\ r.errno = "ERANGE"
                         => res.state = V4L2_SIGNAL_STATE_OUT_OF_RANGE
                    /\ r.ret # 0 /\ r.errno = "ENOTTY"
                         => res.state = V4L2_SIGNAL_STATE_NOT_SUPPORTED
                    /\ IF locked
                       THEN /\ res.width = r.bt.width
                            /\ res.height = r.bt.height
                            /\ res.interlaced = r.bt.interlaced
                       ELSE [res EXCEPT !.state = V4L2_SIGNAL_STATE_NO_DEVICE]
                                = InitialSignal

\* C11 witness: a call whose timings query failed with ERANGE has returned
\* OUT_OF_RANGE
C11_Witness ==
    /\ DvReturned
    /\ Has(log, "G_DV_TIMINGS", -1)
    /\ loc.timings.errno = "ERANGE"
    /\ res.state = V4L2_SIGNAL_STATE_OUT_OF_RANGE

\* the sum of four unsigned 32-bit timing fields
Total(a, b, c, d) == (a + b + c + d) % U32Modulus

\* C12: the fps of a LOCKED status is the pixelclock divided by the product
\* of the total width (width plus horizontal blanking) and the total height
\* (height plus vertical blanking, halved when interlaced); when the
\* pixelclock or either total is 0 the fps is 0 and nothing is divided by 0.
C12_FpsIsQuotient ==
    DvReturned /\ res.state = V4L2_SIGNAL_STATE_LOCKED =>
        LET bt == loc.timings.bt
            tw == Total(bt.width, bt.hfrontporch, bt.hsync, bt.hbackporch)
            fh == Total(bt.height, bt.vfrontporch, bt.vsync, bt.vbackporch)
            th == IF bt.interlaced # 0 THEN fh \div 2 ELSE fh
        IN  /\ res.fps[2] # 0
            /\ res.fps = IF bt.pixelclock = 0 \/ tw = 0 \/ th = 0 THEN <<0, 1>>
                         ELSE <<bt.pixelclock, tw * th>>

C12_Witness ==
    /\ DvReturned
    /\ res.state = V4L2_SIGNAL_STATE_LOCKED
    /\ res.interlaced # 0
    /\ res.fps = <<27000000, (1920 + 120) * ((1080 + 120) \div 2)>>

\* v4l2_get_controls has returned 0 with a non-empty list
CtlListReturned ==
    /\ Returned("get_controls")
    /\ ret = 0
    /\ out.written
    /\ out.count > 0

\* the legacy enumeration was used in the first pass of the returned call
CtlLegacyCounted ==
    \E i \in 1..Len(log) :
        /\ log[i] = Logged("QUERYCTRL", -1)
        /\ \A j \in 1..(i - 1) : log[j][1] # "QUERYCTRL"

\* C13: no record of a list returned by v4l2_get_controls has the disabled
\* flag (bit 0 of flags) set, whichever protocol enumerated the controls.
C13_NoDisabledRecord ==
    CtlListReturned =>
        \A i \in 1..Len(out.list) : out.list[i].flags % 2 = 0

C13_Witness ==
    /\ CtlListReturned
    /\ ~dev.changed
    /\ \E c \in dev.table.ctrls : c.flags % 2 = 1
    /\ \E i \in 1..Len(out.list) : out.list[i].name = "Brightness"

\* the record v4l2_get_controls is to return for control c
ControlRecord(c) ==
    [id |-> c.id, name |-> c.name, type |-> c.type, min |-> c.minimum,
     max |-> c.maximum, step |-> c.step, default_value |-> c.default_value,
     flags |-> c.flags]

\* r is the populated record of an enabled control of driver table t
EnabledRecordOf(t, r) ==
    \E c \in t.ctrls : c.flags % 2 = 0 /\ r = ControlRecord(c)

\* C14: when v4l2_get_controls returns 0 with count n > 0 against a driver
\* whose answers do not change, the list holds exactly n records, each the
\* populated record of an enabled control and none a zero-initialised entry.
C14_ListFullyPopulated ==
    CtlListReturned /\ ~dev.changed =>
        /\ Len(out.list) = out.count
        /\ \A i \in 1..out.count :
               /\ out.list[i] # ZeroControl
               /\ EnabledRecordOf(dev.table, out.list[i])

\* C15: in the legacy protocol a disabled control is omitted and probing
\* continues with the next ID, in the private range as in the standard one
\* and in the fill pass as in the count pass: the private probing of the
\* fill pass stops short of a full list only at an ID the driver rejected.
C15_PrivateStopsOnlyAtRejected ==
    /\ CtlListReturned
    /\ ~dev.changed
    /\ ~loc.using_next_ctrl
    /\ loc.index < loc.ctrl_count
    => log[Len(log) - 1] = Logged("QUERYCTRL", -1)

\* the records of the controls of S by ascending id
RECURSIVE InIdOrder(_)
InIdOrder(S) ==
    IF S = {} THEN <<>>
    ELSE LET c == CHOOSE x \in S : \A y \in S : x.id <= y.id
         IN  <<ControlRecord(c)>> \o InIdOrder(S \ {c})

\* what the next-control protocol of driver table t enumerates, and the
\* enabled controls among it
NextEnumerated(t) == IF t.next_ctrl THEN t.ctrls ELSE {}

NextEnabled(t) == {c \in NextEnumerated(t) : c.flags % 2 = 0}

\* the number of queries of a first pass by the next-control protocol, and of
\* a second pass that stores the enabled controls it enumerates
NextCountQueries(t) == Cardinality(NextEnumerated(t)) + 1

NextFillQueries(t) ==
    LET last == CHOOSE x \in NextEnabled(t) :
                    \A y \in NextEnabled(t) : y.id <= x.id
    IN  Cardinality({c \in NextEnumerated(t) : c.id <= last.id})

\* C16: against a driver whose answers do not change, v4l2_get_controls
\* probes the legacy ID ranges if and only if the next-control protocol
\* yielded no enabled control; when it yields at least one, the only queries
\* are those of the next-control enumeration and the result is exactly its
\* enabled controls in enumeration order.
C16_LegacyIffNextEmpty ==
    /\ Returned("get_controls")
    /\ ret = 0
    /\ out.written
    /\ ~dev.changed
    => LET t == dev.table
       IN  IF NextEnabled(t) = {}
           THEN CountOf(log, "QUERYCTRL") >= NextCountQueries(t) + StdRange + 1
           ELSE /\ CountOf(log, "QUERYCTRL") =
                       NextCountQueries(t) + NextFillQueries(t)
                /\ out.count = Cardinality(NextEnabled(t))
                /\ out.list = InIdOrder(NextEnabled(t))

C16_Witness ==
    /\ Returned("get_controls")
    /\ ret = 0
    /\ out.written
    /\ ~dev.changed
    /\ Cardinality(NextEnabled(dev.table)) = 2
    /\ \E c \in dev.table.ctrls : c.flags % 2 = 1

\* v4l2_get_resolutions has returned 0 for a driver that reported the same
\* continuous or stepwise rectangle throughout
ResRangeReturned ==
    /\ Returned("get_resolutions")
    /\ ret = 0
    /\ out.written
    /\ ~dev.changed
    /\ dev.table.type \in {"CONTINUOUS", "STEPWISE"}

\* the entries of the common-resolution table inside rectangle r, in table
\* order
TableInside(r) ==
    SelectSeq(common_resolutions,
              LAMBDA sz : /\ r.min_width <= sz.width
                          /\ sz.width <= r.max_width
                          /\ r.min_height <= sz.height
                          /\ sz.height <= r.max_height)

\* C17: when the driver reports a continuous or stepwise rectangle, the
\* resolutions returned are the entries of the common-resolution table
\* inside the rectangle: every one returned is such an entry, every such
\* entry is returned, and they appear in table order.
C17_RangeIsTableInsideRect ==
    ResRangeReturned =>
        LET inside == TableInside(dev.table.rect)
        IN  /\ out.count = Len(inside)
            /\ IF inside = <<>> THEN out.list = "NULL"
               ELSE out.list = inside

C17_Witness ==
    /\ ResRangeReturned
    /\ dev.table.rect = Rect(160, 640, 120, 480)
    /\ out.count > 0
    /\ out.count < num_common_resolutions

\* no value occurs at two positions of sequence s
Distinct(s) == \A i, j \in 1..Len(s) : s[i] = s[j] => i = j

\* C18: a list returned by v4l2_get_resolutions holds each width x height
\* pair at most once, for every rectangle on the continuous/stepwise path
\* and on the discrete path (here: for a driver whose answers do not change
\* and whose own discrete list has no repetition).
C18_ResolutionsUnique ==
    /\ Returned("get_resolutions")
    /\ ret = 0
    /\ out.written
    /\ out.count > 0
    /\ ~dev.changed
    /\ Distinct(dev.table.sizes)
    => Distinct(out.list)

\* interval a is at most interval b, both with positive terms
IvalLe(a, b) == a.numerator * b.denominator <= b.numerator * a.denominator

\* the fps of iv lies in the fps range spanned by the bounds of r: its
\* interval lies between the shorter and the longer bound
FpsWithin(iv, r) ==
    \/ IvalLe(r.min, iv) /\ IvalLe(iv, r.max)
    \/ IvalLe(r.max, iv) /\ IvalLe(iv, r.min)

\* C19: when the driver reports a continuous or stepwise frame-interval
\* range, v4l2_get_framerates returns exactly the entries of the common
\* framerate table whose fps lies within the fps range spanned by the
\* minimum and maximum interval, in table order; minimum 1/60 and maximum
\* 1/5 yield all eight.
C19_RangeIsTableWithinFps ==
    /\ Returned("get_framerates")
    /\ ret = 0
    /\ out.written
    /\ ~dev.changed
    /\ dev.table.type \in {"CONTINUOUS", "STEPWISE"}
    /\ dev.table.range.min.numerator > 0
    /\ dev.table.range.max.numerator > 0
    => LET within == SelectSeq(common_framerates,
                               LAMBDA iv : FpsWithin(iv, dev.table.range))
       IN  /\ out.count = Len(within)
           /\ IF within = <<>> THEN out.list = "NULL" ELSE out.list = within

\* operation o has returned 0 and written its outputs, and the driver gave
\* the same answers throughout the call
StableReturned(o) ==
    /\ Returned(o)
    /\ ret = 0
    /\ out.written
    /\ ~dev.changed

\* the returned list is the sequence s (NULL with count 0 when s is empty)
ReturnedList(s) ==
    /\ out.count = Len(s)
    /\ IF s = <<>> THEN out.list = "NULL" ELSE out.list = s

\* C20: for a driver with a stable discrete enumeration, v4l2_get_formats
\* and the discrete paths of v4l2_get_resolutions and v4l2_get_framerates
\* return one entry per driver index 0..n-1, in index order, n being the
\* first index the driver rejects, and entry i holds the driver's reply for
\* index i.
C20_DiscreteInDriverOrder ==
    /\ StableReturned("get_formats") =>
           /\ out.count = Len(dev.table)
           /\ out.count = 0 => out.list = "NULL"
           /\ \A i \in 1..out.count :
                  LET f == dev.table[i]
                      e == out.list[i]
                  IN  /\ e.pixel_format = f.pixelformat
                      /\ e.emulated = f.emulated
                      /\ e.format_name =
                             (IF f.emulated THEN f.description \o " (Emulated)"
                              ELSE f.description)
    /\ StableReturned("get_resolutions") /\ dev.table.type = "DISCRETE" =>
           ReturnedList(dev.table.sizes)
    /\ StableReturned("get_framerates") /\ dev.table.type = "DISCRETE" =>
           ReturnedList(dev.table.ivals)

C20_Witness ==
    /\ StableReturned("get_formats")
    /\ out.count = 2
    /\ dev.table[1] # dev.table[2]
    /\ dev.table[2].emulated

\* operation o has returned after a successful open, against a driver whose
\* answers did not change
StableOpened(o) ==
    /\ Returned(o)
    /\ Has(log, "open", 0)
    /\ ~dev.changed

\* the explicit empty result: return 0, *count = 0, list NULL
EmptyResult ==
    /\ ret = 0
    /\ out.written
    /\ out.count = 0
    /\ out.list = "NULL"

\* C21: when the driver reports nothing for an enumeration (it rejects
\* index 0), v4l2_get_formats, v4l2_get_resolutions and v4l2_get_framerates
\* each return 0 with count 0 and a NULL list, not a negative error code.
C21_NothingIsEmptyNotError ==
    /\ StableOpened("get_formats") /\ dev.table = <<>> => EmptyResult
    /\ StableOpened("get_resolutions")
           /\ dev.table.type = "DISCRETE" /\ dev.table.sizes = <<>>
       => EmptyResult
    /\ StableOpened("get_framerates")
           /\ dev.table.type = "DISCRETE" /\ dev.table.ivals = <<>>
       => EmptyResult

\* operation o has returned 0 with a list of count n > 0
ListReturned(o) ==
    /\ Returned(o)
    /\ ret = 0
    /\ out.written
    /\ out.count > 0

\* C22: whenever v4l2_get_formats, v4l2_get_resolutions, v4l2_get_framerates
\* or v4l2_get_menu_items returns 0 with count n > 0, all n entries of the
\* list were written during the fill pass (none is still as calloc left it),
\* for every sequence of driver replies.
C22_EveryEntryWritten ==
    /\ ListReturned("get_formats") =>
           \A i \in 1..out.count : out.list[i] # ZeroFormat
    /\ ListReturned("get_resolutions") =>
           \A i \in 1..out.count : out.list[i] # Size(0, 0)
    /\ ListReturned("get_framerates") =>
           \A i \in 1..out.count : out.list[i] # Ival(0, 0)
    /\ ListReturned("get_menu_items") =>
           \A i \in 1..out.count : out.list[i] # ZeroMenuItem

\* the operations that open the target device of one query
TargetOps ==
    {"get_formats", "get_resolutions", "get_framerates", "get_controls",
     "get_menu_items", "set_ctrl_value", "get_ctrl_value",
     "wait_for_source_change"}

\* C23: when the target device cannot be opened, each of the eight query
\* operations returns a strictly negative value and issues no ioctl: the
\* failed open is the only call it made.
C23_OpenFailureIsNegative ==
    pc = "idle" /\ op \in TargetOps /\ Has(log, "open", -1) =>
        /\ ret < 0
        /\ log = <<Logged("open", -1)>>

C23_Witness ==
    /\ Returned("get_menu_items")
    /\ Has(log, "open", -1)
    /\ ret = -13

\* v4l2_find_devices has returned 0
FindReturned == Returned("find_devices") /\ ret = 0 /\ out.written

\* the capability mask the filter is to use for directory entry e: the
\* device-specific field when the global field has the device-caps bit
EffectiveMask(e) ==
    IF "DEVICE_CAPS" \in e.capabilities THEN e.device_caps ELSE e.capabilities

\* the directory entries that open, answer the capability query and can
\* capture video, in directory order
CaptureNodes(t) ==
    SelectSeq(t.entries,
              LAMBDA e : /\ e.opens
                         /\ e.querycap
                         /\ "VIDEO_CAPTURE" \in EffectiveMask(e))

\* C24: v4l2_find_devices keeps a node if and only if it opens, answers the
\* capability query and its effective capability mask includes video
\* capture; the caps of the returned record is that effective mask.
C24_KeepsCaptureNodes ==
    FindReturned =>
        LET kept == CaptureNodes(dev.table)
        IN  /\ out.count = Len(kept)
            /\ Len(out.list) = Len(kept)
            /\ \A i \in 1..Len(kept) :
                   /\ out.list[i].device_path = "/dev/" \o kept[i].d_name
                   /\ out.list[i].caps = EffectiveMask(kept[i])

C24_Witness ==
    /\ FindReturned
    /\ out.count = 1
    /\ Len(dev.table.entries) = 2
    /\ dev.table.entries[1].d_name = "video1"
    /\ out.list[1].device_path = "/dev/video2"

\* C25: in v4l2_find_devices a node whose open or capability query fails is
\* skipped and the scan goes on, so the result contains every later
\* capture-capable node; the call returns a negative code only when the
\* video-class directory cannot be opened or an allocation fails.
C25_FailedNodeIsSkipped ==
    Returned("find_devices") =>
        /\ ret # 0 =>
               \/ ret = -ENOENT /\ log = <<Logged("opendir", -1)>>
               \/ ret = -ENOMEM /\ Has(log, "opendir", 0)
        /\ ret = 0 =>
               \A i, j \in 1..Len(dev.table.entries) :
                   LET bad == dev.table.entries[i]
                       e == dev.table.entries[j]
                   IN  /\ i < j
                       /\ ~bad.opens \/ ~bad.querycap
                       /\ e.opens /\ e.querycap
                       /\ "VIDEO_CAPTURE" \in EffectiveMask(e)
                       => \E k \in 1..out.count :
                              out.list[k].device_path = "/dev/" \o e.d_name

C25_Witness ==
    /\ FindReturned
    /\ Has(log, "QUERYCAP", -1)
    /\ Len(dev.table.entries) = 2
    /\ dev.table.entries[1].d_name = "video4"
    /\ out.count = 1

\* C26: when an allocation fails while v4l2_find_devices builds its list,
\* the call returns a negative code and every heap object allocated for the
\* partial list (the array and the path, name and id strings of the devices
\* already recorded) has been released.
C26_NoLeakOnAllocFailure ==
    Returned("find_devices") /\ ret = -ENOMEM => heap = {}

\* the heap objects of a device list of n entries
ListBlocks(n) ==
    IF n = 0 THEN {}
    ELSE {Block("dev_list", 0)}
         \cup {Block(kind, i) : kind \in {"device_path", "device_name",
                                          "device_id"}, i \in 0..(n - 1)}

\* C27: v4l2_free_devices applied to a list returned by v4l2_find_devices
\* with its count releases the path, name and id string of every entry
\* exactly once and the array exactly once; applied to a NULL list it
\* releases nothing.
C27_FreeReleasesEachOnce ==
    Returned("free_devices") =>
        /\ {loc.freed[k] : k \in 1..Len(loc.freed)} = ListBlocks(arg.count)
        /\ \A j, k \in 1..Len(loc.freed) : loc.freed[j] = loc.freed[k] => j = k
        /\ heap = {}
        /\ arg.devices = <<>> => loc.freed = <<>>

C27_Witness ==
    /\ Returned("free_devices")
    /\ arg.count = 2
    /\ Len(loc.freed) = 7

\* string s ends with string t
EndsWith(s, t) ==
    Len(s) >= Len(t) /\ SubSeq(s, Len(s) - Len(t) + 1, Len(s)) = t

StartsWith(s, t) == Len(s) >= Len(t) /\ SubSeq(s, 1, Len(t)) = t

\* the by-id symlinks that resolve to node e and carry its index suffix
IdLinks(t, e) ==
    {l \in t.links :
        /\ l.target = e.d_name \/ EndsWith(l.target, "/" \o e.d_name)
        /\ EndsWith(l.d_name, "-video-index" \o ToString(e.index_value))}

\* C28: the device_id of each record from v4l2_find_devices is the name of a
\* by-id symlink that resolves to the node and carries the suffix of its
\* index when there is one; otherwise it is <bus-info>-video-index<N>, with
\* the prefix platform- if and only if the bus-info does not start with usb-.
C28_DeviceIdStableOrFallback ==
    FindReturned =>
        LET kept == CaptureNodes(dev.table)
        IN  \A i \in 1..out.count :
                LET e == kept[i]
                    id == out.list[i].device_id
                    tail == e.bus_info \o "-video-index" \o ToString(e.index_value)
                IN  IF IdLinks(dev.table, e) # {}
                    THEN \E l \in IdLinks(dev.table, e) : id = l.d_name
                    ELSE IF StartsWith(e.bus_info, "usb-") THEN id = tail
                         ELSE id = "platform-" \o tail

C28_Witness ==
    /\ FindReturned
    /\ out.count = 2
    /\ out.list[1].device_id = "usb-HD_Webcam-video-index0"
    /\ out.list[2].device_id = "platform-fe801000.csi-video-index0"

\* the control the driver has under the id v4l2_get_menu_items was asked
\* about is neither a menu nor an integer menu
NotAMenu ==
    \E c \in dev.table.ctrls :
        /\ c.id = arg.control_id
        /\ c.type # V4L2_CTRL_TYPE_MENU
        /\ c.type # V4L2_CTRL_TYPE_INTEGER_MENU

\* C29: v4l2_get_menu_items called for a control that is neither menu nor
\* integer menu returns -EINVAL, issues no menu query, closes the handle and
\* leaves the caller's items and count untouched.
C29_NonMenuIsArgumentError ==
    /\ op = "get_menu_items" /\ NotAMenu => CountOf(log, "QUERYMENU") = 0
    /\ Returned("get_menu_items") /\ Has(log, "open", 0) /\ NotAMenu =>
           /\ ret = -EINVAL
           /\ log = <<Logged("open", 0), Logged("QUERYCTRL", 0),
                      Logged("close", 0)>>
           /\ fds = 0
           /\ ~out.written
           /\ heap = {}

C29_Witness ==
    /\ Returned("get_menu_items")
    /\ NotAMenu
    /\ ret = -EINVAL
    /\ CountOf(log, "close") = 1

\* the menu or integer-menu control the call was asked about, if the driver
\* has one
MenuControls ==
    {c \in dev.table.ctrls :
        /\ c.id = arg.control_id
        /\ c.type \in {V4L2_CTRL_TYPE_MENU, V4L2_CTRL_TYPE_INTEGER_MENU}}

\* the indices of the declared range of c that the driver accepts
AcceptedIn(c) == {i \in c.minimum..c.maximum : i \in dev.table.menu}

\* C30: for a menu or integer-menu control with declared range [min, max]
\* and a stable driver, v4l2_get_menu_items returns exactly the indices of
\* the range that the driver accepts, each once and in ascending order; a
\* rejected index is absent and does not stop the enumeration, and a range
\* of rejected indices gives count 0 with return 0.
C30_MenuItemsAreAcceptedIndices ==
    /\ Returned("get_menu_items")
    /\ Has(log, "QUERYCTRL", 0)
    /\ ret # -ENOMEM
    /\ ~dev.changed
    => \A c \in MenuControls :
           /\ ret = 0
           /\ out.written
           /\ out.count = Cardinality(AcceptedIn(c))
           /\ out.count = 0 => out.list = "NULL"
           /\ out.count > 0 =>
                  /\ Len(out.list) = out.count
                  /\ {out.list[k].index : k \in 1..out.count} = AcceptedIn(c)
                  /\ \A k \in 1..out.count : out.list[k].id = c.id
                  /\ \A j, k \in 1..out.count :
                         j < k => out.list[j].index < out.list[k].index

C30_Witness ==
    /\ Returned("get_menu_items")
    /\ ret = 0
    /\ ~dev.changed
    /\ dev.table.menu = {0, 2}
    /\ \E c \in MenuControls : c.minimum = 0 /\ c.maximum = 2
    /\ out.count = 2

\* f is a float nearest to x
NearestFloat(f, x) ==
    /\ f % Ulp(x) = 0
    /\ 2 * (IF f >= x THEN f - x ELSE x - f) <= Ulp(x)

\* C31: v4l2_framerate_to_fps returns denominator / numerator, as a float,
\* for every framerate whose numerator is not 0: the quotient of the floats
\* nearest to the two fields, which is the exact quotient when both fields
\* are floats themselves, and exactly N for each table entry 1/N.  For a
\* numerator of 0 it returns 0 and divides nothing (a division would have
\* yielded infinity or not-a-number).
C31_FpsIsQuotient ==
    Returned("framerate_to_fps") =>
        LET num == arg.framerate.numerator
            den == arg.framerate.denominator
        IN  /\ res.kind = "finite"
            /\ num = 0 => res.n = 0 /\ res.d # 0
            /\ num # 0 =>
                  /\ NearestFloat(res.n, den)
                  /\ NearestFloat(res.d, num)
            /\ num # 0 /\ num < Pow2(MantissaBits) /\ den < Pow2(MantissaBits) =>
                  res.n * num = den * res.d
            /\ \A i \in 1..num_common_framerates :
                  arg.framerate = common_framerates[i] =>
                      res.n = common_framerates[i].denominator * res.d

C31_Witness ==
    /\ Returned("framerate_to_fps")
    /\ arg.framerate = Ival(1, 60)
    /\ res.n = 60
    /\ res.d = 1

\* C32: calls issued at the same time from different threads share no
\* mutable state: whatever the interleaving, each thread gets the result its
\* call gives when it runs alone.  For v4l2_format_to_string that is the
\* four characters of the thread's own pixel format.
C32_ConcurrentCallsIndependent ==
    Returned("format_to_string") =>
        \A t \in Threads : res.fourcc[t] = FourccStr(arg.format[t])

\* the sampled resolutions main can use: in the list, with a framerate
\* list that was returned and is not empty
Sampled ==
    {r \in 1..Len(common_res) :
        /\ \E k \in 1..Len(arg.resolutions) : arg.resolutions[k] = common_res[r]
        /\ arg.rates[r].ret >= 0
        /\ arg.rates[r].list # <<>>}

\* f is the highest framerate of sampled resolution r
HighestFps(r, f) ==
    LET F == {v4l2_framerate_to_fps(arg.rates[r].list[l]) :
                  l \in 1..Len(arg.rates[r].list)}
    IN  f \in F /\ \A g \in F : ~FloatGt(g, f)

\* the discovered resolution with the largest width * height, the first of
\* equals
Largest(sz) ==
    \E k \in 1..Len(arg.resolutions) :
        /\ sz = arg.resolutions[k]
        /\ \A j \in 1..Len(arg.resolutions) :
              LET a == arg.resolutions[j].width * arg.resolutions[j].height
              IN  /\ a <= sz.width * sz.height
                  /\ j < k => a < sz.width * sz.height

FiveFps == [kind |-> "finite", n |-> 5, d |-> 1]

\* C33 (as stated): main selects the first of 1920x1080, 1280x720, 640x480
\* that is in the list and whose highest framerate exceeds 5 fps, and the
\* largest discovered resolution, the first of equals, when there is none.
C33_FirstQualifyingWins ==
    Returned("best_resolution") =>
        LET Q == {r \in Sampled :
                     \E f \in {v4l2_framerate_to_fps(arg.rates[r].list[l]) :
                                   l \in 1..Len(arg.rates[r].list)} :
                         FloatGt(f, FiveFps)}
        IN  IF Q # {}
            THEN \E r \in Q : /\ \A q \in Q : r <= q
                              /\ res.best_res = common_res[r]
            ELSE Largest(res.best_res)

\* C33 (amended): main selects, among the sampled resolutions that are in
\* the list and have framerates, the one whose highest framerate is the
\* greatest, the earlier one of equals, provided that framerate is at least
\* 5 fps; otherwise the largest discovered resolution, the first of equals.
C33_HighestFpsWins ==
    Returned("best_resolution") =>
        LET W == {r \in Sampled :
                     \E f \in {v4l2_framerate_to_fps(arg.rates[r].list[l]) :
                                   l \in 1..Len(arg.rates[r].list)} :
                         /\ HighestFps(r, f)
                         /\ ~FloatGt(FiveFps, f)
                         /\ \A q \in Sampled : \A g \in
                               {v4l2_framerate_to_fps(arg.rates[q].list[l]) :
                                    l \in 1..Len(arg.rates[q].list)} :
                               /\ ~FloatGt(g, f)
                               /\ q < r /\ HighestFps(q, g) => FloatGt(f, g)}
        IN  IF W # {}
            THEN Cardinality(W) = 1 /\ \E r \in W : res.best_res = common_res[r]
            ELSE Largest(res.best_res)

\* 1280x720 at 60 fps is chosen over 1920x1080 at 30 fps
C33_Witness ==
    /\ Returned("best_resolution")
    /\ arg.resolutions = <<Size(640, 480), Size(1280, 720), Size(1920, 1080)>>
    /\ arg.rates[1].list = <<Ival(1, 30)>>
    /\ arg.rates[2].list = <<Ival(1, 30), Ival(1, 60)>>
    /\ res.best_res = Size(1280, 720)

\* C34: v4l2_get_device_status returns {unknown, ready 0} when the open or
\* the capability query fails, without having queried the DV timings; when
\* the device opened, answered the capability query and is not classified
\* HDMI, ready is 1 and the type is webcam exactly when the driver name is
\* "uvcvideo", and unknown otherwise.
C34_StatusOfNonHdmi ==
    Returned("get_device_status") =>
        /\ Has(log, "open", -1) \/ Has(log, "QUERYCAP", -1) =>
              /\ res = [device_type |-> V4L2_DEVICE_TYPE_UNKNOWN, ready |-> 0]
              /\ CountOf(log, "G_DV_TIMINGS") = 0
        /\ /\ Has(log, "open", 0)
           /\ Has(log, "QUERYCAP", 0)
           /\ res.device_type # V4L2_DEVICE_TYPE_HDMI
           => /\ res.ready = 1
              /\ res.device_type = V4L2_DEVICE_TYPE_WEBCAM
                    <=> loc.cap.driver = "uvcvideo"
              /\ res.device_type \in {V4L2_DEVICE_TYPE_WEBCAM,
                                      V4L2_DEVICE_TYPE_UNKNOWN}

\* a device whose capability query fails
C34_Witness ==
    /\ Returned("get_device_status")
    /\ Has(log, "QUERYCAP", -1)
    /\ res.ready = 0

\* a device of another driver that is not an HDMI receiver
C34_WitnessUnknownReady ==
    /\ Returned("get_device_status")
    /\ Has(log, "QUERYCAP", 0)
    /\ res = [device_type |-> V4L2_DEVICE_TYPE_UNKNOWN, ready |-> 1]

\* the two functions of the outcome are what the calls return, step by step
StatusFunctionsAreTheCalls ==
    /\ Returned("get_device_status") =>
          \E c \in CapReplies : \E r \in TimingsReplies :
              /\ "cap" \in DOMAIN loc => c = loc.cap
              /\ "timings" \in DOMAIN loc => r = loc.timings
              /\ res = v4l2_get_device_status(Has(log, "open", 0), c, r)
    /\ Returned("get_dv_timings") =>
          \E r \in TimingsReplies :
              /\ "timings" \in DOMAIN loc => r = loc.timings
              /\ res = v4l2_get_dv_timings(Has(log, "open", 0), r)

HdmiAndReady(status) ==
    status.device_type = V4L2_DEVICE_TYPE_HDMI /\ status.ready = 1

NonLockedIsZero(signal) ==
    signal.state # V4L2_SIGNAL_STATE_LOCKED =>
        /\ signal.width = 0
        /\ signal.height = 0
        /\ signal.fps[1] = 0
        /\ signal.interlaced = 0

\* C35 (as stated): for every (open result, capability result,
\* timings-query outcome) v4l2_get_device_status returns HDMI with ready 1
\* exactly when v4l2_get_dv_timings returns LOCKED, and every status of
\* v4l2_get_dv_timings that is not LOCKED has width, height, fps and
\* interlaced 0.
C35_EntryPointsAgree ==
    /\ Returned("both_status") =>
          /\ HdmiAndReady(res.status)
                <=> res.signal.state = V4L2_SIGNAL_STATE_LOCKED
          /\ NonLockedIsZero(res.signal)
    /\ Returned("get_dv_timings") => NonLockedIsZero(res)

\* C35 (amended): the same, for every outcome in which the capability
\* query succeeds or the open fails.
C35_EntryPointsAgreeWithCap ==
    /\ Returned("both_status") =>
          /\ ~arg.open \/ arg.cap.ret = 0 =>
                (HdmiAndReady(res.status)
                    <=> res.signal.state = V4L2_SIGNAL_STATE_LOCKED)
          /\ NonLockedIsZero(res.signal)
    /\ Returned("get_dv_timings") => NonLockedIsZero(res)

\* both functions report a locked HDMI signal
C35_Witness ==
    /\ Returned("both_status")
    /\ arg.open
    /\ arg.cap.ret = 0
    /\ HdmiAndReady(res.status)
    /\ res.signal.state = V4L2_SIGNAL_STATE_LOCKED
    /\ res.signal.width = 1920

\* C36: the two loops of v4l2_get_menu_items terminate for every declared
\* (minimum, maximum), a maximum that is negative or the largest unsigned
\* value after the cast included.  The condition of the first loop depends
\* on the index and the maximum only, so a pass that ends queries no index
\* twice: it makes at most as many VIDIOC_QUERYMENU calls as the index type
\* has values, and the second pass at most as many again.
C36_MenuLoopsTerminate ==
    op = "get_menu_items" =>
        /\ pc = "menu_count" => CountOf(log, "QUERYMENU") <= IndexModulus
        /\ pc = "menu_fill" => CountOf(log, "QUERYMENU") <= 2 * IndexModulus

\* C37: in every count-then-fill enumeration the fill pass stores nothing at
\* or past the count the list was allocated for, whatever the driver
\* answers in either pass: the list never holds more elements than were
\* allocated, the position of the next store never passes the count, and the
\* list handed to the caller has exactly count elements.
C37_FillStaysInBounds ==
    /\ op = "get_formats" =>
          Len(loc.fmt_list) <= loc.fmt_count /\ loc.index <= loc.fmt_count
    /\ op = "get_resolutions" =>
          Len(loc.res_list) <= loc.res_count /\ loc.index <= loc.res_count
    /\ op = "get_framerates" =>
          Len(loc.rate_list) <= loc.rate_count /\ loc.index <= loc.rate_count
    /\ op = "get_controls" =>
          Len(loc.ctrl_list) <= loc.ctrl_count /\ loc.index <= loc.ctrl_count
    /\ op = "get_menu_items" /\ "item_list" \in DOMAIN loc =>
          Len(loc.item_list) <= loc.item_count /\ loc.index <= loc.item_count
    /\ /\ op \in {"get_formats", "get_resolutions", "get_framerates",
                  "get_controls", "get_menu_items"}
       /\ pc = "idle"
       /\ out.written
       /\ out.count > 0
       => Len(out.list) = out.count

\* the driver reported a wider rectangle to the fill pass than to the count
\* pass: more table entries lie inside it than the list has elements
C37_Witness ==
    /\ Returned("get_resolutions")
    /\ ret = 0
    /\ out.written
    /\ out.count > 0
    /\ IsRange(loc.frm_type)
    /\ Cardinality({i \in 1..num_common_resolutions :
                       InRect(common_resolutions[i], loc.frm_rect)}) > out.count

\* the functions that hand a list or a value to the caller through output
\* parameters
OutputOps ==
    {"get_formats", "get_resolutions", "get_framerates", "get_controls",
     "get_menu_items", "get_ctrl_value"}

\* C38: whenever one of these functions returns a negative code, the
\* caller's output parameters (list pointer, count, value) are as they were
\* before the call and nothing the call allocated is still allocated.
C38_FailureLeavesNothing ==
    op \in OutputOps /\ pc = "idle" /\ ret < 0 =>
        /\ out = Untouched
        /\ heap = {}

\* a call that had allocated its list when it failed: the rectangle could
\* not be read again
C38_Witness ==
    /\ Returned("get_resolutions")
    /\ ret < 0
    /\ Len(loc.res_list) > 0
    /\ out = Untouched

\* C39: v4l2_unpack_tuple inverts v4l2_pack_tuple: unpacking the value
\* packed from any two 32-bit signed integers (a, b) yields (a, b) again,
\* a = 0 included.
C39_UnpackInvertsPack ==
    Returned("pack_unpack") =>
        res.unpacked = [a |-> arg.a, b |-> arg.b]

====
